---- MODULE Spec2Model ----
(***************************************************************************)
(* Model of utils/report_tools.py and utils/yql_query.py of the fantasy    *)
(* football metrics weekly report: the enrichment of players and teams,    *)
(* the platform factory, the week validation and the offline cache.        *)
(*                                                                         *)
(* Points are fixed-point numbers in thousandths (12.5 is 12500), so that  *)
(* round(x, 2) is a real operation: it rounds to a multiple of 10.         *)
(***************************************************************************)
EXTENDS Integers, Sequences, FiniteSets, TLC

VARIABLES
    config,     \* the [Report] toggles of config.ini read by the enrichment
    season,     \* the season the report is generated for
    league,     \* BaseLeague: bench_positions
    team,       \* BaseTeam handed to add_report_team_stats
    metrics,    \* the metrics dict: the luck and records lookup tables
    log,        \* warnings logged by add_report_team_stats
    result,     \* the last enrichment call: its name, outcome and provider queries
    player,     \* BasePlayer handed to add_report_player_stats on its own
    prior,      \* that player as it was before the call
    factory,    \* the last call of league_data_factory: arguments and what it did
    clock,      \* today's date: year and month
    current_year,   \* the module's current_year, set when the module is loaded
    current_month,  \* the module's current_month, set when the module is loaded
    week_call,  \* the last call of user_week_input_validation
    week_prev,  \* the call of user_week_input_validation before it
    run,        \* the flags of the run: dev_bool (league.offline), save_bool (league.save_data)
    yql,        \* the YqlQuery object of the run: league_key, league_name
    files,      \* the cache files of the league directory
    fetch,      \* the last fetch operation: arguments, flags, outcome, data returned
    fetch_prev, \* the fetch operation before it
    ncalls,     \* the number of fetch operations so far
    config_file,    \* config.ini: whether it exists and what it holds
    stdin,    \* what the user will answer to each kind of prompt, in order
    setup       \* the last call of get_valid_config or create_config_from_template

enrichVars == <<config, season, league, team, metrics, log, result, player, prior>>

factoryVars == <<factory>>

weekVars == <<clock, current_year, current_month, week_call, week_prev>>

cacheVars == <<run, yql, files, fetch, fetch_prev, ncalls>>

setupVars == <<config_file, stdin, setup>>

vars == <<enrichVars, factoryVars, weekVars, cacheVars, setupVars>>

(***************************************************************************)
(* Bounds of the model.                                                    *)
(***************************************************************************)
MaxRoster == 2

\* the last year the clock reaches
MaxYear == 2022

\* the number of fetch operations of a behaviour
MaxCalls == 3

\* the number of answers the user has ready for each kind of prompt
MaxAnswers == 2

(***************************************************************************)
(* The canonical model: players and teams.                                 *)
(***************************************************************************)
Positions == {"QB", "DEF", "BN"}

AllPositions == {"QB", "DEF", "BN", "IR"}

BenchSets == {{"BN"}, {"BN", "IR"}}

PlayerPoints == {4, 12556}

TeamPoints == {12556, 20000}

HomeFieldAdvantages == {0, 12550}

Seasons == {2019, 2020}

Configs ==
    [league_bad_boy_rankings : BOOLEAN,
     league_beef_rankings : BOOLEAN,
     league_covid_risk_rankings : BOOLEAN]

\* BasePlayer as the adapters hand it over: the enrichment fields neutral
NewPlayer(pos, pts) ==
    [selected_position |-> pos, points |-> pts,
     bad_boy_crime |-> "", bad_boy_points |-> 0, bad_boy_num_offenders |-> 0,
     weight |-> 0, tabbu |-> 0, covid_risk |-> 0]

\* a player that carries enrichment values of an earlier enrichment
StalePlayer(pos, pts) ==
    [selected_position |-> pos, points |-> pts,
     bad_boy_crime |-> "Stale", bad_boy_points |-> 7, bad_boy_num_offenders |-> 2,
     weight |-> 310, tabbu |-> 6, covid_risk |-> 4]

RECURSIVE Rosters(_)
Rosters(n) ==
    IF n = 0 THEN {<<>>}
    ELSE Rosters(n - 1) \cup
         {Append(r, NewPlayer(pos, pts)) :
            r \in {q \in Rosters(n - 1) : Len(q) = n - 1},
            pos \in Positions, pts \in PlayerPoints}

\* BaseTeam as the adapters hand it over: nothing derived is assigned yet
NewTeam(roster, pts, hfa) ==
    [name |-> "b'Team'", team_id |-> "1", roster |-> roster,
     points |-> pts, home_field_advantage |-> hfa,
     assigned |-> {},
     bench_points |-> 0,
     bad_boy_points |-> 0, worst_offense |-> "None", num_offenders |-> 0,
     worst_offense_score |-> 0,
     total_weight |-> 0, tabbu |-> 0, total_covid_risk |-> 0,
     positions_filled_active |-> <<>>,
     coaching_efficiency |-> "None", optimal_points |-> "None",
     luck |-> "None", weekly_overall_record |-> "None", record |-> "None"]

(***************************************************************************)
(* The metrics providers. What a provider answers for a player's identity  *)
(* is an input: a miss answers the neutral value.                          *)
(***************************************************************************)
BadBoyAnswers ==
    {[bad_boy_crime |-> "", bad_boy_points |-> 0, bad_boy_num_offenders |-> 0],
     [bad_boy_crime |-> "DUI", bad_boy_points |-> 5, bad_boy_num_offenders |-> 1],
     [bad_boy_crime |-> "Theft", bad_boy_points |-> 5, bad_boy_num_offenders |-> 1],
     [bad_boy_crime |-> "Assault", bad_boy_points |-> 12, bad_boy_num_offenders |-> 3],
     [bad_boy_crime |-> "Other", bad_boy_points |-> 0, bad_boy_num_offenders |-> 3]}

BeefAnswers == {[weight |-> 0, tabbu |-> 0], [weight |-> 250, tabbu |-> 5]}

CovidAnswers == {0, 3}

NoAnswer ==
    [bad_boy |-> [bad_boy_crime |-> "", bad_boy_points |-> 0, bad_boy_num_offenders |-> 0],
     beef |-> [weight |-> 0, tabbu |-> 0],
     covid |-> 0]

\* what the providers hold for one player, whoever asks
PlayerAnswers == [bad_boy : BadBoyAnswers, beef : BeefAnswers, covid : CovidAnswers]

\* what the providers hold for a player of a whole roster: every bad-boy
\* answer, and a match of the beef and of the covid provider; a provider the
\* configuration switches off holds nothing
Answers(cfg) ==
    [bad_boy : IF cfg.league_bad_boy_rankings THEN BadBoyAnswers ELSE {NoAnswer.bad_boy},
     beef : IF cfg.league_beef_rankings
            THEN {[weight |-> 250, tabbu |-> 5]} ELSE {NoAnswer.beef},
     covid : IF cfg.league_covid_risk_rankings THEN {3} ELSE {NoAnswer.covid}]

RECURSIVE RosterAnswers(_, _)
RosterAnswers(cfg, n) ==
    IF n = 0 THEN {<<>>}
    ELSE {<<a>> \o rest : a \in Answers(cfg), rest \in RosterAnswers(cfg, n - 1)}

(***************************************************************************)
(* round(x, 2) on thousandths: to the nearest multiple of 10, a tie to the *)
(* even hundredth.                                                         *)
(***************************************************************************)
Round2(x) ==
    LET q == x \div 10
        r == x % 10
    IN  IF r < 5 THEN q * 10
        ELSE IF r > 5 THEN (q + 1) * 10
        ELSE IF q % 2 = 0 THEN q * 10 ELSE (q + 1) * 10

RECURSIVE SumOf(_, _)
\* sum([f(p) for p in roster]) for the players of indexes idx, in order
SumOf(vals, n) ==
    IF n = 0 THEN 0 ELSE SumOf(vals, n - 1) + vals[n]

\* [p.<field> for p in roster if p.selected_position (not) in bench_positions]
ActiveIdx(roster, bench_positions) ==
    {i \in 1..Len(roster) : roster[i].selected_position \notin bench_positions}

BenchIdx(roster, bench_positions) ==
    {i \in 1..Len(roster) : roster[i].selected_position \in bench_positions}

\* sum([p.<field> for p in roster if <p in idx>])
SumField(roster, idx, field) ==
    SumOf([i \in 1..Len(roster) |-> IF i \in idx THEN roster[i][field] ELSE 0], Len(roster))

\* add_report_player_stats without the check of the bench positions
add_report_player_stats_any_position(cfg, ssn, ans, p, bench_positions) ==
    LET bb == cfg.league_bad_boy_rankings
        beef == cfg.league_beef_rankings
        covid == cfg.league_covid_risk_rankings /\ ssn >= 2020
    IN  [player |->
            [p EXCEPT
                !.bad_boy_crime = IF bb THEN ans.bad_boy.bad_boy_crime ELSE "",
                !.bad_boy_points = IF bb THEN ans.bad_boy.bad_boy_points ELSE 0,
                !.bad_boy_num_offenders =
                    IF bb THEN ans.bad_boy.bad_boy_num_offenders ELSE 0,
                !.weight = IF beef THEN ans.beef.weight ELSE 0,
                !.tabbu = IF beef THEN ans.beef.tabbu ELSE 0,
                !.covid_risk = IF covid THEN ans.covid ELSE 0],
         queried |->
            (IF bb THEN {"bad_boy_stats"} ELSE {})
            \cup (IF beef THEN {"beef_stats"} ELSE {})
            \cup (IF covid THEN {"covid_risk"} ELSE {})]

\* add_report_player_stats asking the covid-risk provider in every season
add_report_player_stats_any_season(cfg, ssn, ans, p, bench_positions) ==
    LET active == p.selected_position \notin bench_positions
        bb == active /\ cfg.league_bad_boy_rankings
        beef == active /\ cfg.league_beef_rankings
        covid == active /\ cfg.league_covid_risk_rankings
    IN  [player |->
            [p EXCEPT
                !.bad_boy_crime = IF bb THEN ans.bad_boy.bad_boy_crime ELSE "",
                !.bad_boy_points = IF bb THEN ans.bad_boy.bad_boy_points ELSE 0,
                !.bad_boy_num_offenders =
                    IF bb THEN ans.bad_boy.bad_boy_num_offenders ELSE 0,
                !.weight = IF beef THEN ans.beef.weight ELSE 0,
                !.tabbu = IF beef THEN ans.beef.tabbu ELSE 0,
                !.covid_risk = IF covid THEN ans.covid ELSE 0],
         queried |->
            (IF bb THEN {"bad_boy_stats"} ELSE {})
            \cup (IF beef THEN {"beef_stats"} ELSE {})
            \cup (IF covid THEN {"covid_risk"} ELSE {})]

(***************************************************************************)
(* add_report_player_stats: resets the six enrichment fields, then asks    *)
(* the enabled providers, for an active player only. Returns the player    *)
(* and the providers it queried.                                           *)
(***************************************************************************)
add_report_player_stats(cfg, ssn, ans, p, bench_positions) ==
    LET reset == [p EXCEPT !.bad_boy_crime = "", !.bad_boy_points = 0,
                           !.bad_boy_num_offenders = 0, !.weight = 0,
                           !.tabbu = 0, !.covid_risk = 0]
        active == p.selected_position \notin bench_positions
        bb == active /\ cfg.league_bad_boy_rankings
        beef == active /\ cfg.league_beef_rankings
        covid == active /\ cfg.league_covid_risk_rankings /\ ssn >= 2020
    IN  [player |->
            [reset EXCEPT
                !.bad_boy_crime = IF bb THEN ans.bad_boy.bad_boy_crime ELSE @,
                !.bad_boy_points = IF bb THEN ans.bad_boy.bad_boy_points ELSE @,
                !.bad_boy_num_offenders =
                    IF bb THEN ans.bad_boy.bad_boy_num_offenders ELSE @,
                !.weight = IF beef THEN ans.beef.weight ELSE @,
                !.tabbu = IF beef THEN ans.beef.tabbu ELSE @,
                !.covid_risk = IF covid THEN ans.covid ELSE @],
         queried |->
            (IF bb THEN {"bad_boy_stats"} ELSE {})
            \cup (IF beef THEN {"beef_stats"} ELSE {})
            \cup (IF covid THEN {"covid_risk"} ELSE {})]

(***************************************************************************)
(* add_report_team_stats, piece by piece.                                  *)
(***************************************************************************)
RECURSIVE EnrichRoster_reversed(_, _, _, _, _)
\* the loop over team.roster leaving the players in the opposite order
EnrichRoster_reversed(cfg, ssn, answers, roster, bench_positions) ==
    IF roster = <<>> THEN <<>>
    ELSE EnrichRoster_reversed(cfg, ssn, Tail(answers), Tail(roster), bench_positions)
         \o <<add_report_player_stats(cfg, ssn, Head(answers), Head(roster),
                                      bench_positions)>>

\* the loop over team.roster calling add_report_player_stats on each player
RECURSIVE EnrichRoster(_, _, _, _, _)
EnrichRoster(cfg, ssn, answers, roster, bench_positions) ==
    IF roster = <<>> THEN <<>>
    ELSE <<add_report_player_stats(cfg, ssn, Head(answers), Head(roster), bench_positions)>>
         \o EnrichRoster(cfg, ssn, Tail(answers), Tail(roster), bench_positions)

\* round(sum([p.points for p in team.roster if p.selected_position not in bench_positions]), 2)
starting_lineup_points(roster, bench_positions) ==
    Round2(SumField(roster, ActiveIdx(roster, bench_positions), "points"))

\* the comparison without the home field advantage
PointsMismatch_no_advantage(tm, slp) ==
    Round2(tm.points) # slp

\* round(team.points, 2) != (starting_lineup_points + team.home_field_advantage)
PointsMismatch(tm, slp) ==
    Round2(tm.points) # slp + tm.home_field_advantage

\* the bench sum with the filter of the starting lineup sum
bench_points_not_in(roster, bench_positions) ==
    Round2(SumField(roster, ActiveIdx(roster, bench_positions), "points"))

\* round(sum([p.points for p in team.roster if p.selected_position in bench_positions]), 2)
bench_points(roster, bench_positions) ==
    Round2(SumField(roster, BenchIdx(roster, bench_positions), "points"))

\* the values the bad-boy loop starts from
BadBoyStart ==
    [bad_boy_points |-> 0, worst_offense |-> "None", num_offenders |-> 0,
     worst_offense_score |-> 0]

\* the loop body adding the points only of a new worst offender
BadBoyStep_sum_in_worst(acc, p, bench_positions) ==
    IF p.selected_position \notin bench_positions /\ p.bad_boy_points > 0
    THEN [bad_boy_points |->
              IF p.bad_boy_points > acc.worst_offense_score
              THEN acc.bad_boy_points + p.bad_boy_points ELSE acc.bad_boy_points,
          num_offenders |->
              IF p.selected_position = "DEF"
              THEN acc.num_offenders + p.bad_boy_num_offenders
              ELSE acc.num_offenders + 1,
          worst_offense |->
              IF p.bad_boy_points > acc.worst_offense_score
              THEN p.bad_boy_crime ELSE acc.worst_offense,
          worst_offense_score |->
              IF p.bad_boy_points > acc.worst_offense_score
              THEN p.bad_boy_points ELSE acc.worst_offense_score]
    ELSE acc

\* the loop body counting one offender for a DEF as for any other position
BadBoyStep_def_counts_one(acc, p, bench_positions) ==
    IF p.selected_position \notin bench_positions /\ p.bad_boy_points > 0
    THEN [bad_boy_points |-> acc.bad_boy_points + p.bad_boy_points,
          num_offenders |-> acc.num_offenders + 1,
          worst_offense |->
              IF p.bad_boy_points > acc.worst_offense_score
              THEN p.bad_boy_crime ELSE acc.worst_offense,
          worst_offense_score |->
              IF p.bad_boy_points > acc.worst_offense_score
              THEN p.bad_boy_points ELSE acc.worst_offense_score]
    ELSE acc

\* the loop body with >= for >: the last of several equal offenders wins
BadBoyStep_last_wins(acc, p, bench_positions) ==
    IF p.selected_position \notin bench_positions /\ p.bad_boy_points > 0
    THEN [bad_boy_points |-> acc.bad_boy_points + p.bad_boy_points,
          num_offenders |->
              IF p.selected_position = "DEF"
              THEN acc.num_offenders + p.bad_boy_num_offenders
              ELSE acc.num_offenders + 1,
          worst_offense |->
              IF p.bad_boy_points >= acc.worst_offense_score
              THEN p.bad_boy_crime ELSE acc.worst_offense,
          worst_offense_score |->
              IF p.bad_boy_points >= acc.worst_offense_score
              THEN p.bad_boy_points ELSE acc.worst_offense_score]
    ELSE acc

\* one pass of the bad-boy loop's body
BadBoyStep(acc, p, bench_positions) ==
    IF p.selected_position \notin bench_positions /\ p.bad_boy_points > 0
    THEN [bad_boy_points |-> acc.bad_boy_points + p.bad_boy_points,
          num_offenders |->
              IF p.selected_position = "DEF"
              THEN acc.num_offenders + p.bad_boy_num_offenders
              ELSE acc.num_offenders + 1,
          worst_offense |->
              IF p.bad_boy_points > acc.worst_offense_score
              THEN p.bad_boy_crime ELSE acc.worst_offense,
          worst_offense_score |->
              IF p.bad_boy_points > acc.worst_offense_score
              THEN p.bad_boy_points ELSE acc.worst_offense_score]
    ELSE acc

RECURSIVE BadBoyLoop(_, _, _)
\* for p in team.roster: ..., over the first n players in roster order
BadBoyLoop(roster, n, bench_positions) ==
    IF n = 0 THEN BadBoyStart
    ELSE BadBoyStep(BadBoyLoop(roster, n - 1, bench_positions), roster[n], bench_positions)

\* [p.selected_position for p in team.roster if p.selected_position not in bench_positions]
positions_filled_active(roster, bench_positions) ==
    SelectSeq([i \in 1..Len(roster) |-> roster[i].selected_position],
              LAMBDA pos : pos \notin bench_positions)

\* metrics_calculator.decode_byte_string
decode_byte_string(name) ==
    IF name = "b'Team'" THEN "Team" ELSE name

\* metrics.get("coaching_efficiency").execute_coaching_efficiency(...): the
\* evaluator is a collaborator; its answer is a function of what it is given
execute_coaching_efficiency(name, roster, points, active_positions) ==
    [coaching_efficiency |-> "evaluated", optimal_points |-> "evaluated"]

\* the whole of add_report_team_stats: the team as the call leaves it (it is
\* changed in place, also when the call raises), the warnings logged, the
\* outcome and the providers queried for each player
add_report_team_stats(cfg, tm, lg, ssn, answers, mtr) ==
    LET bench_positions == lg.bench_positions
        name == decode_byte_string(tm.name)
        enriched == EnrichRoster(cfg, ssn, answers, tm.roster, bench_positions)
        roster == [i \in 1..Len(tm.roster) |-> enriched[i].player]
        slp == starting_lineup_points(roster, bench_positions)
        warnings == IF PointsMismatch(tm, slp) THEN <<"points_mismatch">> ELSE <<>>
        bb == cfg.league_bad_boy_rankings
        beef == cfg.league_beef_rankings
        covid == cfg.league_covid_risk_rankings /\ ssn >= 2020
        bad_boy == BadBoyLoop(roster, Len(roster), bench_positions)
        active == ActiveIdx(roster, bench_positions)
        pfa == positions_filled_active(roster, bench_positions)
        ce == execute_coaching_efficiency(name, roster, tm.points, pfa)
        t1 == [tm EXCEPT
                !.name = name,
                !.roster = roster,
                !.bench_points = bench_points(roster, bench_positions),
                !.bad_boy_points = IF bb THEN bad_boy.bad_boy_points ELSE @,
                !.worst_offense = IF bb THEN bad_boy.worst_offense ELSE @,
                !.num_offenders = IF bb THEN bad_boy.num_offenders ELSE @,
                !.worst_offense_score = IF bb THEN bad_boy.worst_offense_score ELSE @,
                !.total_weight = IF beef THEN SumField(roster, active, "weight") ELSE @,
                !.tabbu = IF beef THEN SumField(roster, active, "tabbu") ELSE @,
                !.total_covid_risk =
                    IF covid THEN SumField(roster, active, "covid_risk") ELSE @,
                !.positions_filled_active = pfa,
                !.coaching_efficiency = ce.coaching_efficiency,
                !.optimal_points = ce.optimal_points,
                !.assigned = @ \cup {"name", "bench_points", "positions_filled_active",
                                     "coaching_efficiency", "optimal_points"}
                    \cup (IF bb THEN {"bad_boy_points", "worst_offense", "num_offenders",
                                      "worst_offense_score"} ELSE {})
                    \cup (IF beef THEN {"total_weight", "tabbu"} ELSE {})
                    \cup (IF covid THEN {"total_covid_risk"} ELSE {})]
        has_luck == tm.team_id \in DOMAIN mtr.luck
        t2 == IF has_luck
              THEN [t1 EXCEPT
                      !.luck = mtr.luck[tm.team_id].luck,
                      !.weekly_overall_record = mtr.luck[tm.team_id].luck_record,
                      !.record = IF tm.team_id \in DOMAIN mtr.records
                                 THEN mtr.records[tm.team_id] ELSE "None",
                      !.assigned = @ \cup {"luck", "weekly_overall_record", "record"}]
              ELSE t1
    IN  [team |-> t2,
         warnings |-> warnings,
         outcome |-> IF has_luck THEN "returned" ELSE "AttributeError",
         queried |-> [i \in 1..Len(tm.roster) |-> enriched[i].queried]]

(***************************************************************************)
(* league_data_factory. The adapters (dao.platforms) are collaborators: a  *)
(* constructor takes its arguments, map_data_to_base answers the League of *)
(* its platform or fails fatally.                                          *)
(***************************************************************************)
\* the modules of the dao.platforms package, listed when the module is loaded
supported_platforms == {"espn", "fleaflicker", "sleeper", "yahoo"}

PlatformNames == supported_platforms \cup {"cbs", "Yahoo", ""}

FactoryArgs ==
    [week_for_report : {1, 2}, save_data : BOOLEAN, offline : BOOLEAN]

\* <Platform>LeagueData(...).map_data_to_base(BaseLeague): the adapter built
\* with the arguments it takes, and what its map_data_to_base did
Adapter(class, platform, params, args, adapter_ok) ==
    [constructed |-> <<[class |-> class, params |-> params, args |-> args]>>,
     mapped |-> <<class>>,
     outcome |-> IF adapter_ok THEN "returned" ELSE "exit",
     returned |-> IF adapter_ok THEN platform ELSE "nothing",
     errors |-> <<>>]

YahooParams ==
    {"week_for_report", "start_week", "league_id", "game_id", "config", "base_dir",
     "data_dir", "user_week_input_validation", "save_data", "offline"}

FleaflickerParams ==
    {"week_for_report", "league_id", "season", "start_week", "config", "data_dir",
     "user_week_input_validation", "get_current_nfl_week", "save_data", "offline"}

SleeperParams ==
    {"week_for_report", "league_id", "season", "start_week", "config", "data_dir",
     "user_week_input_validation", "get_current_nfl_week", "save_data", "offline"}

EspnParams ==
    {"week_for_report", "league_id", "season", "start_week", "config", "base_dir",
     "data_dir", "user_week_input_validation", "save_data", "offline"}

\* the factory falling back to the first platform for a name it does not know
league_data_factory_default(platform, args, adapter_ok) ==
    IF platform = "fleaflicker"
    THEN Adapter("FleaflickerLeagueData", "fleaflicker", FleaflickerParams, args, adapter_ok)
    ELSE IF platform = "sleeper"
    THEN Adapter("SleeperLeagueData", "sleeper", SleeperParams, args, adapter_ok)
    ELSE IF platform = "espn"
    THEN Adapter("EspnLeagueData", "espn", EspnParams, args, adapter_ok)
    ELSE Adapter("YahooLeagueData", "yahoo", YahooParams, args, adapter_ok)

\* the factory without a branch for espn
league_data_factory_no_espn(platform, args, adapter_ok) ==
    IF platform \in supported_platforms
    THEN IF platform = "yahoo"
         THEN Adapter("YahooLeagueData", "yahoo", YahooParams, args, adapter_ok)
         ELSE IF platform = "fleaflicker"
         THEN Adapter("FleaflickerLeagueData", "fleaflicker", FleaflickerParams, args,
                      adapter_ok)
         ELSE IF platform = "sleeper"
         THEN Adapter("SleeperLeagueData", "sleeper", SleeperParams, args, adapter_ok)
         ELSE [constructed |-> <<>>, mapped |-> <<>>, outcome |-> "returned",
               returned |-> "None", errors |-> <<>>]
    ELSE [constructed |-> <<>>, mapped |-> <<>>, outcome |-> "exit",
          returned |-> "nothing", errors |-> <<"unsupported_platform">>]

\* league_data_factory: what it constructed and called, how it ended
\* ("returned", or "exit" for sys.exit), what it returned and the errors logged
league_data_factory(platform, args, adapter_ok) ==
    IF platform \in supported_platforms
    THEN IF platform = "yahoo"
         THEN Adapter("YahooLeagueData", "yahoo", YahooParams, args, adapter_ok)
         ELSE IF platform = "fleaflicker"
         THEN Adapter("FleaflickerLeagueData", "fleaflicker", FleaflickerParams, args,
                      adapter_ok)
         ELSE IF platform = "sleeper"
         THEN Adapter("SleeperLeagueData", "sleeper", SleeperParams, args, adapter_ok)
         ELSE IF platform = "espn"
         THEN Adapter("EspnLeagueData", "espn", EspnParams, args, adapter_ok)
         ELSE [constructed |-> <<>>, mapped |-> <<>>, outcome |-> "returned",
               returned |-> "None", errors |-> <<>>]
    ELSE [constructed |-> <<>>, mapped |-> <<>>, outcome |-> "exit",
          returned |-> "nothing", errors |-> <<"unsupported_platform">>]

NoFactoryCall ==
    [constructed |-> <<>>, mapped |-> <<>>, outcome |-> "none", returned |-> "nothing",
     errors |-> <<>>]

FactoryIdle ==
    factory = [platform |-> "", args |-> [week_for_report |-> 1, save_data |-> FALSE,
                                          offline |-> FALSE],
               called |-> FALSE, did |-> NoFactoryCall]

(***************************************************************************)
(* user_week_input_validation. A Python value is None, an int, the decimal *)
(* string of an int (s = "digits") or another string (s its text).         *)
(***************************************************************************)
NFL_SEASON_LENGTH == 18

PyNone == [t |-> "None", n |-> 0, s |-> ""]

PyInt(n) == [t |-> "int", n |-> n, s |-> ""]

PyNumStr(n) == [t |-> "str", n |-> n, s |-> "digits"]

PyWord(w) == [t |-> "str", n |-> 0, s |-> w]

\* bool(v)
Truthy(v) ==
    IF v.t = "None" THEN FALSE
    ELSE IF v.t = "int" THEN v.n # 0
    ELSE v.s # ""

\* int(v) succeeds; else it raises TypeError for None and ValueError for a string
CanInt(v) == v.t = "int" \/ (v.t = "str" /\ v.s = "digits")

IntError(v) == IF v.t = "None" THEN "TypeError" ELSE "ValueError"

\* v == "default"
IsDefault(v) == v.t = "str" /\ v.s = "default"

WeekRaise(kind, message, prompted) ==
    [outcome |-> kind, value |-> 0, prompted |-> prompted, message |-> message]

\* an exception raised inside the try block: a ValueError is caught and
\* raised again with the message of line 432, anything else passes through
InTry(kind, message, prompted) ==
    IF kind = "ValueError"
    THEN WeekRaise("ValueError", "invalid_week_value", prompted)
    ELSE WeekRaise(kind, message, prompted)

\* return int(week_for_report)
WeekReturn(wfr, prompted) ==
    IF CanInt(wfr)
    THEN [outcome |-> "returned", value |-> wfr.n, prompted |-> prompted,
          message |-> "none"]
    ELSE WeekRaise(IntError(wfr), "int_conversion", prompted)

\* the test of line 394 reading today's date in place of the module's
ValidatedSeason_today(ssn) ==
    clock.year = ssn \/ (clock.year = ssn + 1 /\ clock.month < 9)

\* the test of line 394 without the months of the next year before September
ValidatedSeason_same_year(ssn) ==
    current_year = ssn

\* current_year == int(season) or (current_year == (int(season) + 1) and current_month < 9)
ValidatedSeason(ssn) ==
    current_year = ssn \/ (current_year = ssn + 1 /\ current_month < 9)

\* the error of a declined prompt: "n", or an answer that is neither "y" nor "n"
Declined(answer) ==
    InTry("ValueError", IF answer = "n" THEN "incomplete_week" ELSE "select_y_or_n", TRUE)

\* the try block resolving "default" to current_week - 1 whenever current_week > 0
ValidateWeek_default_from_one(wfr, current_week, answer) ==
    IF IsDefault(wfr)
    THEN IF ~CanInt(current_week)
         THEN InTry(IntError(current_week), "int_conversion", FALSE)
         ELSE IF current_week.n > 0
         THEN WeekReturn(PyNumStr(current_week.n - 1), FALSE)
         ELSE IF answer = "y"
         THEN WeekReturn(current_week, TRUE)
         ELSE Declined(answer)
    ELSE IF ~CanInt(wfr)
    THEN InTry(IntError(wfr), "int_conversion", FALSE)
    ELSE IF 0 < wfr.n /\ wfr.n <= NFL_SEASON_LENGTH
    THEN IF ~CanInt(current_week)
         THEN InTry(IntError(current_week), "int_conversion", FALSE)
         ELSE IF 0 < wfr.n /\ wfr.n <= current_week.n - 1
         THEN WeekReturn(wfr, FALSE)
         ELSE IF answer = "y"
         THEN WeekReturn(wfr, TRUE)
         ELSE Declined(answer)
    ELSE InTry("ValueError", "invalid_week_value", FALSE)

\* the try block of lines 395-433
ValidateWeek(wfr, current_week, answer) ==
    IF IsDefault(wfr)
    THEN IF ~CanInt(current_week)
         THEN InTry(IntError(current_week), "int_conversion", FALSE)
         ELSE IF current_week.n - 1 > 0
         THEN WeekReturn(PyNumStr(current_week.n - 1), FALSE)
         ELSE IF answer = "y"
         THEN WeekReturn(current_week, TRUE)
         ELSE Declined(answer)
    ELSE IF ~CanInt(wfr)
    THEN InTry(IntError(wfr), "int_conversion", FALSE)
    ELSE IF 0 < wfr.n /\ wfr.n <= NFL_SEASON_LENGTH
    THEN IF ~CanInt(current_week)
         THEN InTry(IntError(current_week), "int_conversion", FALSE)
         ELSE IF 0 < wfr.n /\ wfr.n <= current_week.n - 1
         THEN WeekReturn(wfr, FALSE)
         ELSE IF answer = "y"
         THEN WeekReturn(wfr, TRUE)
         ELSE Declined(answer)
    ELSE InTry("ValueError", "invalid_week_value", FALSE)

\* user_week_input_validation(config, week, retrieved_current_week, season),
\* with the answer the user gives if asked: how the call ends, the week it
\* returns, whether it prompted and the message of the error it raises
user_week_input_validation(cfg_week, week, retrieved_current_week, ssn, answer) ==
    LET week_for_report == IF Truthy(week) THEN week ELSE cfg_week
    IN  IF ValidatedSeason(ssn)
        THEN ValidateWeek(week_for_report, retrieved_current_week, answer)
        ELSE WeekReturn(week_for_report, FALSE)

RequestedWeeks ==
    {PyNone, PyInt(0), PyInt(0 - 1), PyInt(1), PyInt(3), PyInt(18), PyInt(19),
     PyWord("default"), PyWord("abc")}

ConfiguredWeeks == {PyWord("default"), PyNumStr(2)}

CurrentWeeks == {PyNone, PyInt(0), PyInt(1), PyInt(2), PyInt(4), PyInt(19), PyInt(20)}

WeekSeasons == {2020, 2021, 2022}

PromptAnswers == {"y", "n", ""}

WeekInputs ==
    [cfg_week : ConfiguredWeeks, week : RequestedWeeks, current_week : CurrentWeeks,
     season : WeekSeasons, answer : PromptAnswers]

\* the dates of the clock: August and September, the months on either side
\* of the test current_month < 9, of each year
Dates == [year : 2021..MaxYear, month : {8, 9}]

NoWeekCall ==
    [called |-> FALSE,
     inputs |-> [cfg_week |-> PyNone, week |-> PyNone, current_week |-> PyNone,
                 season |-> 0, answer |-> ""],
     at |-> [year |-> 0, month |-> 0],
     did |-> WeekRaise("none", "none", FALSE)]

WeekIdle ==
    /\ clock = [year |-> 2021, month |-> 8]
    /\ current_year = 2021
    /\ current_month = 8
    /\ week_call = NoWeekCall
    /\ week_prev = NoWeekCall

(***************************************************************************)
(* The offline cache. A JSON payload is a list of rows, a row a list of    *)
(* <<key, value>> pairs; a JSON file is the list of the tokens json.dump   *)
(* writes. The directories of the league directory exist.                  *)
(***************************************************************************)
RECURSIVE DumpPairs(_)
DumpPairs(row) ==
    IF row = <<>> THEN <<>>
    ELSE <<row[1][1], ":", row[1][2]>>
         \o (IF Len(row) > 1 THEN <<",">> ELSE <<>>)
         \o DumpPairs(Tail(row))

RECURSIVE DumpRows(_)
DumpRows(rows) ==
    IF rows = <<>> THEN <<>>
    ELSE <<"{">> \o DumpPairs(rows[1]) \o <<"}">>
         \o (IF Len(rows) > 1 THEN <<",">> ELSE <<>>)
         \o DumpRows(Tail(rows))

\* json.dump(data, file): the text written
JsonDump(rows) == <<"[">> \o DumpRows(rows) \o <<"]">>

RECURSIVE LoadPairs(_, _)
\* the pairs of a row from token i on, and the index after its closing brace
LoadPairs(toks, i) ==
    IF toks[i] = "}" THEN [val |-> <<>>, next |-> i + 1]
    ELSE LET j == IF toks[i + 3] = "," THEN i + 4 ELSE i + 3
             rest == LoadPairs(toks, j)
         IN  [val |-> <<<<toks[i], toks[i + 2]>>>> \o rest.val, next |-> rest.next]

RECURSIVE LoadRows(_, _)
LoadRows(toks, i) ==
    IF toks[i] = "]" THEN <<>>
    ELSE IF toks[i] = "," THEN LoadRows(toks, i + 1)
    ELSE LET row == LoadPairs(toks, i + 1)
         IN  <<row.val>> \o LoadRows(toks, row.next)

\* json.load(file)
JsonLoad(toks) == LoadRows(toks, 2)

\* row.get(key)
Get(row, key) ==
    IF \E i \in DOMAIN row : row[i][1] = key
    THEN row[CHOOSE i \in DOMAIN row : row[i][1] = key][2]
    ELSE "None"

(***************************************************************************)
(* An HTML text is a list of tokens: opening tags, closing tags and        *)
(* characters. The soup BeautifulSoup parses from it is the list of its    *)
(* nodes, the characters between two tags being one text node.             *)
(***************************************************************************)
Open(tag) == [k |-> "open", v |-> <<tag>>]

Close(tag) == [k |-> "close", v |-> <<tag>>]

Chr(c) == [k |-> "chr", v |-> <<c>>]

RECURSIVE BeautifulSoup(_)
\* BeautifulSoup(text, "html.parser")
BeautifulSoup(text) ==
    IF text = <<>> THEN <<>>
    ELSE LET h == Head(text)
             rest == BeautifulSoup(Tail(text))
         IN  IF h.k # "chr" THEN <<h>> \o rest
             ELSE IF rest # <<>> /\ rest[1].k = "text"
             THEN <<[k |-> "text", v |-> h.v \o rest[1].v]>> \o Tail(rest)
             ELSE <<[k |-> "text", v |-> h.v]>> \o rest

Whitespace == {" ", "\n"}

RECURSIVE LStrip(_)
LStrip(chars) ==
    IF chars # <<>> /\ Head(chars) \in Whitespace THEN LStrip(Tail(chars)) ELSE chars

RECURSIVE RStrip(_)
RStrip(chars) ==
    IF chars # <<>> /\ chars[Len(chars)] \in Whitespace
    THEN RStrip(SubSeq(chars, 1, Len(chars) - 1)) ELSE chars

\* text.strip()
Strip(chars) == RStrip(LStrip(chars))

RECURSIVE Indent(_)
Indent(depth) == IF depth <= 0 THEN <<>> ELSE <<Chr(" ")>> \o Indent(depth - 1)

Chars(chars) == [i \in 1..Len(chars) |-> Chr(chars[i])]

RECURSIVE PrettifyFrom(_, _)
\* every tag and every stripped text on a line of its own, indented by its depth
PrettifyFrom(nodes, depth) ==
    IF nodes = <<>> THEN <<>>
    ELSE LET h == Head(nodes)
         IN  IF h.k = "open"
             THEN Indent(depth) \o <<h, Chr("\n")>> \o PrettifyFrom(Tail(nodes), depth + 1)
             ELSE IF h.k = "close"
             THEN Indent(depth - 1) \o <<h, Chr("\n")>>
                  \o PrettifyFrom(Tail(nodes), depth - 1)
             ELSE IF Strip(h.v) = <<>>
             THEN PrettifyFrom(Tail(nodes), depth)
             ELSE Indent(depth) \o Chars(Strip(h.v)) \o <<Chr("\n")>>
                  \o PrettifyFrom(Tail(nodes), depth)

\* html_soup.prettify()
Prettify(soup) == PrettifyFrom(soup, 0)

(***************************************************************************)
(* What the services answer to a live request, and what an earlier run     *)
(* left in a cache file.                                                   *)
(***************************************************************************)
FetchWeeks == {"1", "2"}

StaticFiles ==
    {<<"game_data.json">>, <<"league_standings_data.json">>, <<"roster_data.json">>,
     <<"teams_data.json">>}

WeekFiles(w) ==
    {<<"week", w, "result_data.json">>, <<"week", w, "roster_data", "Team_roster_data.json">>,
     <<"week", w, "player_status_data.html">>}

FileNames == StaticFiles \cup UNION {WeekFiles(w) : w \in FetchWeeks}

\* self.yql_query(query): the rows of the answer
yql_query(table, week) ==
    IF table = "games" THEN <<<<<<"game_key", "390">>, <<"code", "nfl">>>>>>
    ELSE IF table = "standings" THEN <<<<<<"name", "League">>, <<"num_teams", "2">>>>>>
    ELSE IF table = "settings" THEN <<<<<<"roster_positions", "QB,DEF,BN">>>>>>
    ELSE IF table = "teams" THEN <<<<<<"team_key", "390.l.1.t.1">>>>,
                                   <<<<"team_key", "390.l.1.t.2">>>>>>
    ELSE IF table = "scoreboard" THEN <<<<<<"scoreboard", week>>, <<"name", "League">>>>>>
    ELSE <<<<<<"team_key", "390.l.1.t.1">>, <<"week", week>>>>>>

\* response.text of the injuries page
HtmlResponses == {<<>>, <<Open("td"), Chr("Out"), Close("td")>>}

\* a file left by an earlier run, of an earlier state of the league
StaleFile(name) ==
    IF name \in {<<"week", w, "player_status_data.html">> : w \in FetchWeeks}
    THEN [exists |-> TRUE, text |-> Prettify(BeautifulSoup(<<Open("td"), Chr("IR"), Close("td")>>))]
    ELSE [exists |-> TRUE, text |-> JsonDump(<<<<<<"game_key", "380">>, <<"name", "Old">>,
                                                <<"scoreboard", "old">>>>>>)]

NoFile == [exists |-> FALSE, text |-> <<>>]

(***************************************************************************)
(* The fetch operations. Each answers the files and the YqlQuery object    *)
(* as it leaves them, how it ends, the data it returns and the input and   *)
(* output it did: "yql_query" and "requests.get" go to the network,        *)
(* "read" and "write" to the cache file.                                   *)
(***************************************************************************)
Fetched(fs, y, outcome, data, io) ==
    [files |-> fs, yql |-> y, outcome |-> outcome, data |-> data, io |-> io]

\* the io of saving: if self.save_bool / if league.save_data
SaveIo(r) == IF r.save_bool THEN {"write"} ELSE {}

\* if self.save_bool: with open(file, "w") as f: json.dump(data, f)
SaveJson(fs, r, name, data) ==
    IF r.save_bool THEN [fs EXCEPT ![name] = [exists |-> TRUE, text |-> JsonDump(data)]]
    ELSE fs

\* QueryOrLoad answering an empty row where the cache file is missing
QueryOrLoad_empty_on_missing(fs, y, r, name, table, week, needs_key) ==
    IF ~r.dev_bool
    THEN IF needs_key /\ y.league_key = <<>>
         THEN [outcome |-> "TypeError", data |-> <<>>, io |-> {}]
         ELSE [outcome |-> "ok", data |-> yql_query(table, week), io |-> {"yql_query"}]
    ELSE IF ~fs[name].exists
         THEN [outcome |-> "ok", data |-> <<<<>>>>, io |-> {"read"}]
         ELSE [outcome |-> "ok", data |-> JsonLoad(fs[name].text), io |-> {"read"}]

\* QueryOrLoad querying the service whatever dev_bool is
QueryOrLoad_always_live(fs, y, r, name, table, week, needs_key) ==
    IF needs_key /\ y.league_key = <<>>
    THEN [outcome |-> "TypeError", data |-> <<>>, io |-> {}]
    ELSE [outcome |-> "ok", data |-> yql_query(table, week), io |-> {"yql_query"}]

\* the data of a YqlQuery operation: the answer of the live query, or the
\* content of the cache file in dev mode; a live query built by string
\* concatenation raises TypeError while self.league_key is None, and a
\* missing cache file raises FileNotFoundError
QueryOrLoad(fs, y, r, name, table, week, needs_key) ==
    IF ~r.dev_bool
    THEN IF needs_key /\ y.league_key = <<>>
         THEN [outcome |-> "TypeError", data |-> <<>>, io |-> {}]
         ELSE [outcome |-> "ok", data |-> yql_query(table, week), io |-> {"yql_query"}]
    ELSE IF ~fs[name].exists
         THEN [outcome |-> "FileNotFoundError", data |-> <<>>, io |-> {"read"}]
         ELSE [outcome |-> "ok", data |-> JsonLoad(fs[name].text), io |-> {"read"}]

get_league_key(fs, y, r, league_id) ==
    LET got == QueryOrLoad(fs, y, r, <<"game_data.json">>, "games", "", FALSE)
        league_key == <<Get(got.data[1], "game_key"), ".l.", league_id>>
    IN  IF got.outcome # "ok" THEN Fetched(fs, y, got.outcome, <<>>, got.io)
        ELSE Fetched(SaveJson(fs, r, <<"game_data.json">>, got.data),
                     [y EXCEPT !.league_key = league_key], "returned", league_key,
                     got.io \cup SaveIo(r))

get_league_standings_data(fs, y, r) ==
    LET got == QueryOrLoad(fs, y, r, <<"league_standings_data.json">>, "standings", "", TRUE)
    IN  IF got.outcome # "ok" THEN Fetched(fs, y, got.outcome, <<>>, got.io)
        ELSE Fetched(SaveJson(fs, r, <<"league_standings_data.json">>, got.data),
                     [y EXCEPT !.league_name = Get(got.data[1], "name")],
                     "returned", got.data, got.io \cup SaveIo(r))

get_roster_data(fs, y, r) ==
    LET got == QueryOrLoad(fs, y, r, <<"roster_data.json">>, "settings", "", TRUE)
    IN  IF got.outcome # "ok" THEN Fetched(fs, y, got.outcome, <<>>, got.io)
        ELSE Fetched(SaveJson(fs, r, <<"roster_data.json">>, got.data), y, "returned",
                     got.data, got.io \cup SaveIo(r))

get_teams_data(fs, y, r) ==
    LET got == QueryOrLoad(fs, y, r, <<"teams_data.json">>, "teams", "", TRUE)
    IN  IF got.outcome # "ok" THEN Fetched(fs, y, got.outcome, <<>>, got.io)
        ELSE Fetched(SaveJson(fs, r, <<"teams_data.json">>, got.data), y, "returned",
                     got.data, got.io \cup SaveIo(r))

\* the live query is built with str.format, which takes a league_key of None
get_matchups_data(fs, y, r, chosen_week) ==
    LET name == <<"week", chosen_week, "result_data.json">>
        got == QueryOrLoad(fs, y, r, name, "scoreboard", chosen_week, FALSE)
    IN  IF got.outcome # "ok" THEN Fetched(fs, y, got.outcome, <<>>, got.io)
        ELSE Fetched(SaveJson(fs, r, name, got.data), y, "returned",
                     <<Get(got.data[1], "scoreboard")>>, got.io \cup SaveIo(r))

get_roster_stats_data(fs, y, r, chosen_week) ==
    LET name == <<"week", chosen_week, "roster_data", "Team_roster_data.json">>
        got == QueryOrLoad(fs, y, r, name, "roster.stats", chosen_week, TRUE)
    IN  IF got.outcome # "ok" THEN Fetched(fs, y, got.outcome, <<>>, got.io)
        ELSE Fetched(SaveJson(fs, r, name, got.data), y, "returned", got.data,
                     got.io \cup SaveIo(r))

\* get_player_game_time_statuses(week, league): league.offline and
\* league.save_data are the flags of the run; response is the page a live
\* request answers
get_player_game_time_statuses(fs, y, r, week, response) ==
    LET name == <<"week", week, "player_status_data.html">>
        html_soup == IF ~r.dev_bool THEN BeautifulSoup(response)
                     ELSE BeautifulSoup(fs[name].text)
        io == IF ~r.dev_bool THEN {"requests.get"} ELSE {"read"}
    IN  IF r.dev_bool /\ ~fs[name].exists
        THEN Fetched(fs, y, "exit", <<>>, io)
        ELSE Fetched(IF r.save_bool
                     THEN [fs EXCEPT ![name] = [exists |-> TRUE,
                                                text |-> Prettify(html_soup)]]
                     ELSE fs,
                     y, "returned", html_soup, io \cup SaveIo(r))

\* what the request of get_current_nfl_week meets: a state of the NFL with a
\* week, one without, a body that is not JSON, or no connection
NflLookups ==
    {[kind |-> "week", week |-> 5], [kind |-> "no_week", week |-> 0],
     [kind |-> "not_json", week |-> 0], [kind |-> "connection_error", week |-> 0]}

\* offline nothing is asked, so nothing answers
NoLookup == [kind |-> "none", week |-> 0]

\* config.getint("Settings", "current_week")
ConfiguredCurrentWeeks == {3}

\* get_current_nfl_week(config, offline): requests.get(api_url).json() raises
\* ValueError on a body that is not JSON, which is caught; the error of a
\* failed request is no KeyError and no ValueError; .get("week") answers
\* None where the key is missing
get_current_nfl_week(fs, y, current_week, offline, lookup) ==
    IF offline THEN Fetched(fs, y, "returned", <<PyInt(current_week)>>, {})
    ELSE IF lookup.kind = "connection_error"
    THEN Fetched(fs, y, "ConnectionError", <<>>, {"requests.get"})
    ELSE IF lookup.kind = "not_json"
    THEN Fetched(fs, y, "returned", <<PyInt(current_week)>>, {"requests.get"})
    ELSE IF lookup.kind = "no_week"
    THEN Fetched(fs, y, "returned", <<PyNone>>, {"requests.get"})
    ELSE Fetched(fs, y, "returned", <<PyInt(lookup.week)>>, {"requests.get"})

\* the cache file of an operation
CacheFile(op, week) ==
    IF op = "get_league_key" THEN <<"game_data.json">>
    ELSE IF op = "get_league_standings_data" THEN <<"league_standings_data.json">>
    ELSE IF op = "get_roster_data" THEN <<"roster_data.json">>
    ELSE IF op = "get_teams_data" THEN <<"teams_data.json">>
    ELSE IF op = "get_matchups_data" THEN <<"week", week, "result_data.json">>
    ELSE IF op = "get_roster_stats_data"
    THEN <<"week", week, "roster_data", "Team_roster_data.json">>
    ELSE <<"week", week, "player_status_data.html">>

\* the operations that keep a cache file
CachedOps ==
    {"get_league_key", "get_league_standings_data", "get_roster_data", "get_teams_data",
     "get_matchups_data", "get_roster_stats_data", "get_player_game_time_statuses"}

NoAnswerGiven == [kind |-> "none", week |-> 0, current_week |-> 0, response |-> <<>>]

NoFetch ==
    [called |-> FALSE, op |-> "none", week |-> "", dev_bool |-> FALSE,
     save_bool |-> FALSE, had_file |-> FALSE, answer |-> NoAnswerGiven,
     outcome |-> "none", data |-> <<>>, io |-> {}]

NoYql == [league_key |-> <<>>, league_name |-> "None"]

CacheIdle ==
    /\ run = [dev_bool |-> FALSE, save_bool |-> FALSE]
    /\ yql = NoYql
    /\ files = [name \in FileNames |-> NoFile]
    /\ fetch = NoFetch
    /\ fetch_prev = NoFetch
    /\ ncalls = 0

(***************************************************************************)
(* The configuration. config.ini is a file that exists or not, is readable *)
(* or not, has the sections and keys of the template or not, and holds     *)
(* the four settings the setup asks for. The user's answers are one queue  *)
(* for each kind of prompt: the n-th prompt of a kind reads the n-th       *)
(* answer of its queue, and input() on an empty queue raises EOFError.     *)
(***************************************************************************)
NewSettings(platform, league_id, ssn, current_week) ==
    [platform |-> platform, league_id |-> league_id, season |-> ssn,
     current_week |-> current_week]

\* the settings of config.template.ini
TemplateSettings ==
    NewSettings(PyWord("template"), PyWord("template"), PyWord("template"),
                PyWord("template"))

NoSettings == NewSettings(PyNone, PyNone, PyNone, PyNone)

NoConfigFile ==
    [exists |-> FALSE, readable |-> FALSE, sections_ok |-> FALSE, keys_ok |-> FALSE,
     settings |-> NoSettings]

\* shutil.copyfile(config_template_file, config_file_path)
TemplateCopy ==
    [exists |-> TRUE, readable |-> TRUE, sections_ok |-> TRUE, keys_ok |-> TRUE,
     settings |-> TemplateSettings]

\* the states config.ini is found in
ConfigFiles ==
    {NoConfigFile,
     [TemplateCopy EXCEPT !.readable = FALSE],
     [TemplateCopy EXCEPT !.sections_ok = FALSE],
     [TemplateCopy EXCEPT !.keys_ok = FALSE],
     [TemplateCopy EXCEPT !.settings =
         NewSettings(PyWord("sleeper"), PyNumStr(3), PyNumStr(2018), PyNumStr(3))]}

RECURSIVE SeqsUpTo(_, _)
\* the sequences over S of at most n elements
SeqsUpTo(S, n) ==
    IF n = 0 THEN {<<>>}
    ELSE SeqsUpTo(S, n - 1) \cup
         {Append(q, x) : q \in {r \in SeqsUpTo(S, n - 1) : Len(r) = n - 1}, x \in S}

CreateAnswers == {PyWord("y"), PyWord("n"), PyWord("maybe")}

PlatformAnswers == {PyWord("yahoo"), PyWord("espn"), PyWord("cbs")}

SeasonAnswers == {PyNumStr(2018), PyNumStr(2030), PyWord("last")}

CurrentWeekAnswers == {PyNumStr(3), PyNumStr(99)}

\* the league id the user answers, whenever asked
LeagueIdAnswer == PyNumStr(3)

AnswerQueues ==
    [create : SeqsUpTo(CreateAnswers, MaxAnswers),
     platform : SeqsUpTo(PlatformAnswers, MaxAnswers),
     season : SeqsUpTo(SeasonAnswers, MaxAnswers),
     current_week : SeqsUpTo(CurrentWeekAnswers, MaxAnswers)]

NoAnswers == [create |-> <<>>, platform |-> <<>>, season |-> <<>>, current_week |-> <<>>]

\* the state a setup function works on: the AppConfigParser object, the
\* file, the answers left, the last answer read and whether it still runs
\* (ok) or an EOFError is propagating
SetupState(cfg, file, inp) ==
    [config |-> cfg, file |-> file, inp |-> inp, got |-> PyNone, ok |-> TRUE]

\* input(...) of the prompt of a kind
Input(st, kind) ==
    IF ~st.ok THEN st
    ELSE IF st.inp[kind] = <<>> THEN [st EXCEPT !.ok = FALSE]
    ELSE [st EXCEPT !.got = Head(st.inp[kind]), !.inp[kind] = Tail(@)]

\* config.set("Settings", key, value)
ConfigSet(st, key, value) ==
    IF st.ok THEN [st EXCEPT !.config[key] = value] ELSE st

\* int(season) > current_year, or int(season) < 2019 and platform == "espn",
\* or int(season) raises ValueError: the season is asked for again
SeasonRejected(ssn, platform) ==
    IF ~CanInt(ssn) THEN TRUE
    ELSE \/ ssn.n > current_year
         \/ ssn.n < 2019 /\ platform = PyWord("espn")

\* int(current_week) < 0 or int(current_week) > NFL_SEASON_LENGTH, or
\* int(current_week) raises ValueError: the week is asked for again
CurrentWeekRejected(current_week) ==
    IF ~CanInt(current_week) THEN TRUE
    ELSE current_week.n < 0 \/ current_week.n > NFL_SEASON_LENGTH

RECURSIVE create_config_from_template(_, _, _, _, _)
\* create_config_from_template(config, root_directory, config_file_path,
\* platform, league_id, season, current_week) on the state st: the template
\* is copied over config.ini and read into config; each setting not given is
\* asked for, a rejected answer makes the function call itself, and after
\* the inner call returns the outer goes on with the answer it read
create_config_from_template(st, platform, league_id, ssn, current_week) ==
    LET copied == [st EXCEPT !.file = TemplateCopy, !.config = TemplateSettings]
        asked_p == IF Truthy(platform) THEN copied ELSE Input(copied, "platform")
        p == IF Truthy(platform) THEN platform ELSE asked_p.got
        retried_p == IF asked_p.ok /\ ~Truthy(platform) /\ p.s \notin supported_platforms
                     THEN create_config_from_template(asked_p, PyNone, PyNone, PyNone, PyNone)
                     ELSE asked_p
        set_p == ConfigSet(retried_p, "platform", p)
        l == IF Truthy(league_id) THEN league_id ELSE LeagueIdAnswer
        set_l == ConfigSet(set_p, "league_id", l)
        asked_s == IF Truthy(ssn) THEN set_l ELSE Input(set_l, "season")
        s == IF Truthy(ssn) THEN ssn ELSE asked_s.got
        retried_s == IF asked_s.ok /\ ~Truthy(ssn) /\ SeasonRejected(s, p)
                     THEN create_config_from_template(asked_s, p, l, PyNone, PyNone)
                     ELSE asked_s
        set_s == ConfigSet(retried_s, "season", s)
        asked_w == IF Truthy(current_week) THEN set_s ELSE Input(set_s, "current_week")
        w == IF Truthy(current_week) THEN current_week ELSE asked_w.got
        retried_w == IF asked_w.ok /\ ~Truthy(current_week) /\ CurrentWeekRejected(w)
                     THEN create_config_from_template(asked_w, p, l, s, PyNone)
                     ELSE asked_w
        set_w == ConfigSet(retried_w, "current_week", w)
    IN  IF set_w.ok
        THEN [set_w EXCEPT !.file.settings = set_w.config]
        ELSE set_w

SetupResult(st, outcome, value) == [st |-> st, outcome |-> outcome, value |-> value]

RECURSIVE get_valid_config(_)
\* get_valid_config(config_file) on the state st, whose config is the new
\* AppConfigParser of line 66: how the call ends and whether it returns the
\* configuration or, falling off its end, None
get_valid_config(st) ==
    IF st.file.exists
    THEN IF ~st.file.readable THEN SetupResult(st, "exit", "nothing")
         ELSE IF ~st.file.sections_ok THEN SetupResult(st, "exit", "nothing")
         ELSE IF ~st.file.keys_ok THEN SetupResult(st, "exit", "nothing")
         ELSE SetupResult([st EXCEPT !.config = st.file.settings], "returned", "config")
    ELSE LET asked == Input(st, "create")
         IN  IF ~asked.ok THEN SetupResult(asked, "EOFError", "nothing")
             ELSE IF asked.got = PyWord("y")
             THEN LET created ==
                          create_config_from_template(asked, PyNone, PyNone, PyNone, PyNone)
                  IN  IF created.ok THEN SetupResult(created, "returned", "config")
                      ELSE SetupResult(created, "EOFError", "nothing")
             ELSE IF asked.got = PyWord("n") THEN SetupResult(asked, "exit", "nothing")
             ELSE LET inner == get_valid_config([asked EXCEPT !.config = NoSettings])
                  IN  IF inner.outcome = "returned"
                      THEN SetupResult(inner.st, "returned", "None")
                      ELSE inner

NoSetupCall ==
    [called |-> FALSE, op |-> "none", found |-> NoConfigFile, given |-> NoAnswers,
     outcome |-> "none", value |-> "nothing", config |-> NoSettings]

SetupIdle ==
    /\ config_file = NoConfigFile
    /\ stdin = NoAnswers
    /\ setup = NoSetupCall

(***************************************************************************)
(* The enrichment of one team: the state before the call and the call.     *)
(***************************************************************************)
\* the luck and records tables as the report builder precomputes them: an
\* entry per team of the league
Metrics ==
    {[luck |-> [t \in {"1"} |-> [luck |-> "lucky", luck_record |-> "1-0-0"]],
      records |-> [t \in {"1"} |-> "1-0-0"]]}

NoCall == [call |-> "none", outcome |-> "none", queried |-> <<>>, answers |-> <<>>]

NoPlayer == NewPlayer("BN", 0)

NoTeam == NewTeam(<<>>, 0, 0)

Init ==
    /\ config \in Configs
    /\ season \in Seasons
    /\ league = [bench_positions |-> {"BN", "IR"}]
    /\ team \in {NewTeam(r, pts, hfa) :
                    r \in Rosters(MaxRoster), pts \in TeamPoints,
                    hfa \in HomeFieldAdvantages}
    /\ metrics \in Metrics
    /\ log = <<>>
    /\ result = NoCall
    /\ player = NoPlayer
    /\ prior = NoPlayer
    /\ FactoryIdle
    /\ WeekIdle
    /\ CacheIdle
    /\ SetupIdle

AddReportTeamStats ==
    /\ result.call = "none"
    /\ \E answers \in RosterAnswers(config, Len(team.roster)) :
       \E r \in {add_report_team_stats(config, team, league, season, answers, metrics)} :
          /\ team' = r.team
          /\ log' = log \o r.warnings
          /\ result' = [call |-> "add_report_team_stats", outcome |-> r.outcome,
                        queried |-> r.queried, answers |-> <<>>]
    /\ UNCHANGED <<config, season, league, metrics, player, prior>>
    /\ UNCHANGED <<factoryVars, weekVars, cacheVars, setupVars>>

Next == AddReportTeamStats

Spec == Init /\ [][Next]_vars

(***************************************************************************)
(* The enrichment of one team against any content of the luck and records  *)
(* tables: an entry for the team in both, in one of them or in neither.    *)
(***************************************************************************)
MetricsTables ==
    [luck : {[t \in ids |-> [luck |-> "lucky", luck_record |-> "1-0-0"]] :
                ids \in {{"1"}, {"2"}, {}}},
     records : {[t \in ids |-> "1-0-0"] : ids \in {{"1"}, {}}}]

InitTables ==
    /\ config \in Configs
    /\ season \in Seasons
    /\ league = [bench_positions |-> {"BN", "IR"}]
    /\ team \in {NewTeam(r, pts, 0) : r \in Rosters(1), pts \in TeamPoints}
    /\ metrics \in MetricsTables
    /\ log = <<>>
    /\ result = NoCall
    /\ player = NoPlayer
    /\ prior = NoPlayer
    /\ FactoryIdle
    /\ WeekIdle
    /\ CacheIdle
    /\ SetupIdle

NextTables == AddReportTeamStats

SpecTables == InitTables /\ [][NextTables]_vars

(***************************************************************************)
(* The enrichment of one player on its own: any position, any values left  *)
(* in the enrichment fields, any league bench set, any provider answers.   *)
(***************************************************************************)
InitPlayer ==
    /\ config \in Configs
    /\ season \in Seasons
    /\ league \in [bench_positions : BenchSets]
    /\ player \in {NewPlayer(pos, 12556) : pos \in AllPositions}
                  \cup {StalePlayer(pos, 12556) : pos \in AllPositions}
    /\ prior = NoPlayer
    /\ team = NoTeam
    /\ metrics \in Metrics
    /\ log = <<>>
    /\ result = NoCall
    /\ FactoryIdle
    /\ WeekIdle
    /\ CacheIdle
    /\ SetupIdle

AddReportPlayerStats ==
    /\ result.call = "none"
    /\ \E ans \in PlayerAnswers :
       \E r \in {add_report_player_stats(config, season, ans, player,
                                          league.bench_positions)} :
          /\ player' = r.player
          /\ prior' = player
          /\ result' = [call |-> "add_report_player_stats", outcome |-> "returned",
                        queried |-> <<r.queried>>, answers |-> <<ans>>]
    /\ UNCHANGED <<config, season, league, team, metrics, log>>
    /\ UNCHANGED <<factoryVars, weekVars, cacheVars, setupVars>>

NextPlayer == AddReportPlayerStats

SpecPlayer == InitPlayer /\ [][NextPlayer]_vars

(***************************************************************************)
(* The platform factory: one call with any platform name.                  *)
(***************************************************************************)
EnrichIdle ==
    /\ config = [league_bad_boy_rankings |-> FALSE, league_beef_rankings |-> FALSE,
                 league_covid_risk_rankings |-> FALSE]
    /\ season = 2020
    /\ league = [bench_positions |-> {"BN", "IR"}]
    /\ team = NoTeam
    /\ metrics \in Metrics
    /\ log = <<>>
    /\ result = NoCall
    /\ player = NoPlayer
    /\ prior = NoPlayer

InitFactory ==
    /\ factory \in [platform : PlatformNames, args : FactoryArgs, called : {FALSE},
                    did : {NoFactoryCall}]
    /\ EnrichIdle
    /\ WeekIdle
    /\ CacheIdle
    /\ SetupIdle

LeagueDataFactory ==
    /\ ~factory.called
    /\ \E adapter_ok \in BOOLEAN :
          factory' = [factory EXCEPT
                        !.called = TRUE,
                        !.did = league_data_factory(factory.platform, factory.args,
                                                    adapter_ok)]
    /\ UNCHANGED <<enrichVars, weekVars, cacheVars, setupVars>>

NextFactory == LeagueDataFactory

SpecFactory == InitFactory /\ [][NextFactory]_vars

(***************************************************************************)
(* The week validation: the module is loaded at some date, time passes,    *)
(* the function is called and called again with the same arguments.        *)
(***************************************************************************)
InitWeek ==
    /\ clock \in Dates
    /\ current_year = clock.year
    /\ current_month = clock.month
    /\ week_call = NoWeekCall
    /\ week_prev = NoWeekCall
    /\ EnrichIdle
    /\ FactoryIdle
    /\ CacheIdle
    /\ SetupIdle

\* time passes: from August to September, from September to the next August
Tick ==
    /\ \/ clock.month = 8 /\ clock' = [clock EXCEPT !.month = 9]
       \/ /\ clock.month = 9
          /\ clock.year < MaxYear
          /\ clock' = [year |-> clock.year + 1, month |-> 8]
    /\ UNCHANGED <<current_year, current_month, week_call, week_prev>>
    /\ UNCHANGED <<enrichVars, factoryVars, cacheVars, setupVars>>

WeekCall(in) ==
    [called |-> TRUE, inputs |-> in, at |-> clock,
     did |-> user_week_input_validation(in.cfg_week, in.week, in.current_week,
                                        in.season, in.answer)]

UserWeekInputValidation ==
    /\ ~week_call.called
    /\ \E in \in WeekInputs : week_call' = WeekCall(in)
    /\ UNCHANGED <<clock, current_year, current_month, week_prev>>
    /\ UNCHANGED <<enrichVars, factoryVars, cacheVars, setupVars>>

\* a second call with the arguments and the answer of the first
UserWeekInputValidationAgain ==
    /\ week_call.called
    /\ ~week_prev.called
    /\ week_prev' = week_call
    /\ week_call' = WeekCall(week_call.inputs)
    /\ UNCHANGED <<clock, current_year, current_month>>
    /\ UNCHANGED <<enrichVars, factoryVars, cacheVars, setupVars>>

NextWeek == Tick \/ UserWeekInputValidation \/ UserWeekInputValidationAgain

SpecWeek == InitWeek /\ [][NextWeek]_vars

(***************************************************************************)
(* The runs over one league directory: a run is started live or offline,   *)
(* saving or not, and calls fetch operations.                              *)
(***************************************************************************)
InitCache ==
    /\ run \in [dev_bool : BOOLEAN, save_bool : BOOLEAN]
    /\ yql = NoYql
    /\ files \in {[name \in FileNames |-> NoFile], [name \in FileNames |-> StaleFile(name)]}
    /\ fetch = NoFetch
    /\ fetch_prev = NoFetch
    /\ ncalls = 0
    /\ EnrichIdle
    /\ FactoryIdle
    /\ WeekIdle
    /\ SetupIdle

\* YqlQuery(config, league_id, save_bool, dev_bool, league_test_dir) of a new run
StartRun ==
    /\ fetch.called
    /\ ncalls < MaxCalls
    /\ \E flags \in [dev_bool : BOOLEAN, save_bool : BOOLEAN] :
          /\ flags # run
          /\ run' = flags
    /\ yql' = NoYql
    /\ UNCHANGED <<files, fetch, fetch_prev, ncalls>>
    /\ UNCHANGED <<enrichVars, factoryVars, weekVars, setupVars>>

\* the bookkeeping of a fetch operation that did f, given the answer of the
\* service it asked
Fetch(op, week, answer, f) ==
    /\ ncalls < MaxCalls
    /\ files' = f.files
    /\ yql' = f.yql
    /\ fetch_prev' = fetch
    /\ fetch' = [called |-> TRUE, op |-> op, week |-> week, dev_bool |-> run.dev_bool,
                 save_bool |-> run.save_bool,
                 had_file |-> op \in CachedOps /\ files[CacheFile(op, week)].exists,
                 answer |-> answer,
                 outcome |-> f.outcome, data |-> f.data, io |-> f.io]
    /\ ncalls' = ncalls + 1
    /\ UNCHANGED run
    /\ UNCHANGED <<enrichVars, factoryVars, weekVars, setupVars>>

GetLeagueKey ==
    Fetch("get_league_key", "", NoAnswerGiven, get_league_key(files, yql, run, "1"))

GetLeagueStandingsData ==
    Fetch("get_league_standings_data", "", NoAnswerGiven,
          get_league_standings_data(files, yql, run))

GetRosterData == Fetch("get_roster_data", "", NoAnswerGiven, get_roster_data(files, yql, run))

GetTeamsData == Fetch("get_teams_data", "", NoAnswerGiven, get_teams_data(files, yql, run))

GetMatchupsData ==
    \E w \in FetchWeeks :
        Fetch("get_matchups_data", w, NoAnswerGiven, get_matchups_data(files, yql, run, w))

GetRosterStatsData ==
    \E w \in FetchWeeks :
        Fetch("get_roster_stats_data", w, NoAnswerGiven,
              get_roster_stats_data(files, yql, run, w))

GetPlayerGameTimeStatuses ==
    \E w \in FetchWeeks, response \in (IF run.dev_bool THEN {<<>>} ELSE HtmlResponses) :
        Fetch("get_player_game_time_statuses", w,
              [NoAnswerGiven EXCEPT !.kind = IF run.dev_bool THEN "none" ELSE "page",
                                    !.response = response],
              get_player_game_time_statuses(files, yql, run, w, response))

\* get_current_nfl_week(config, offline) with the offline flag of the run
GetCurrentNflWeek ==
    \E current_week \in ConfiguredCurrentWeeks,
       lookup \in (IF run.dev_bool THEN {NoLookup} ELSE NflLookups) :
        Fetch("get_current_nfl_week", "",
              [NoAnswerGiven EXCEPT !.kind = lookup.kind, !.week = lookup.week,
                                    !.current_week = current_week],
              get_current_nfl_week(files, yql, current_week, run.dev_bool, lookup))

NextCache ==
    \/ StartRun
    \/ GetLeagueKey
    \/ GetLeagueStandingsData
    \/ GetRosterData
    \/ GetTeamsData
    \/ GetMatchupsData
    \/ GetRosterStatsData
    \/ GetPlayerGameTimeStatuses
    \/ GetCurrentNflWeek

SpecCache == InitCache /\ [][NextCache]_vars

(***************************************************************************)
(* The setup: config.ini in any state, the user with any answers ready,    *)
(* and one call of get_valid_config or of create_config_from_template.     *)
(***************************************************************************)
InitSetup ==
    /\ config_file \in ConfigFiles
    /\ stdin \in AnswerQueues
    /\ config_file.exists => stdin = NoAnswers   \* no prompt comes, nothing is read
    /\ setup = NoSetupCall
    /\ EnrichIdle
    /\ FactoryIdle
    /\ WeekIdle
    /\ CacheIdle

\* the bookkeeping of a setup call that ended with the state st
SetupCall(op, st, outcome, value) ==
    /\ config_file' = st.file
    /\ stdin' = st.inp
    /\ setup' = [called |-> TRUE, op |-> op, found |-> config_file, given |-> stdin,
                 outcome |-> outcome, value |-> value, config |-> st.config]
    /\ UNCHANGED <<enrichVars, factoryVars, weekVars, cacheVars>>

GetValidConfig ==
    /\ ~setup.called
    /\ \E r \in {get_valid_config(SetupState(NoSettings, config_file, stdin))} :
          SetupCall("get_valid_config", r.st, r.outcome, r.value)

\* create_config_from_template(config, root_directory, config_file_path) on
\* a new AppConfigParser where config.ini does not exist
CreateConfigFromTemplate ==
    /\ ~setup.called
    /\ ~config_file.exists
    /\ \E st \in {create_config_from_template(SetupState(NoSettings, config_file, stdin),
                                              PyNone, PyNone, PyNone, PyNone)} :
          SetupCall("create_config_from_template", st,
                    IF st.ok THEN "returned" ELSE "EOFError",
                    IF st.ok THEN "config" ELSE "nothing")

NextSetup == GetValidConfig \/ CreateConfigFromTemplate

SpecSetup == InitSetup /\ [][NextSetup]_vars

(***************************************************************************)
(* Vocabulary of the properties.                                           *)
(***************************************************************************)
TeamCalled == result.call = "add_report_team_stats"

TeamReturned == TeamCalled /\ result.outcome = "returned"

PlayerCalled == result.call = "add_report_player_stats"

BadBoyEnabled == config.league_bad_boy_rankings

\* the indexes of the team's players in a bench position, and of the others
BenchPlayers ==
    {i \in DOMAIN team.roster : team.roster[i].selected_position \in league.bench_positions}

ActivePlayers == DOMAIN team.roster \ BenchPlayers

RECURSIVE Total(_, _)
\* the sum of f over the indexes S
Total(f, S) ==
    IF S = {} THEN 0
    ELSE LET i == CHOOSE j \in S : TRUE IN f[i] + Total(f, S \ {i})

\* m is x to two decimal places: the hundredth nearest to x
IsRounded(m, x) ==
    /\ m % 10 = 0
    /\ 2 * (m - x) <= 10
    /\ 2 * (x - m) <= 10

Rounded(x) == CHOOSE m \in (x - 5)..(x + 5) : IsRounded(m, x)

PointsOf == [i \in DOMAIN team.roster |-> team.roster[i].points]

BadBoyPointsOf == [i \in DOMAIN team.roster |-> team.roster[i].bad_boy_points]

Neutral(p) ==
    /\ p.bad_boy_crime = ""
    /\ p.bad_boy_points = 0
    /\ p.bad_boy_num_offenders = 0
    /\ p.weight = 0
    /\ p.tabbu = 0
    /\ p.covid_risk = 0

(***************************************************************************)
(* C1: after add_report_team_stats returns, team.bench_points is the sum,  *)
(* to two decimal places, of the points of exactly the roster players      *)
(* whose selected_position is in league.bench_positions.                   *)
(***************************************************************************)
C1_BenchPoints ==
    TeamReturned => IsRounded(team.bench_points, Total(PointsOf, BenchPlayers))

\* a roster with two bench players whose sum is rounded, and nothing active
\* counted: 0.004 + 0.004 is 0.01
C1_Witness ==
    /\ TeamReturned
    /\ Cardinality(BenchPlayers) = 2
    /\ Total(PointsOf, BenchPlayers) = 8
    /\ team.bench_points = 10

\* a bench player beside an active one
C1_WitnessMixed ==
    /\ TeamReturned
    /\ Cardinality(BenchPlayers) = 1
    /\ Cardinality(ActivePlayers) = 1
    /\ team.bench_points = 12560

(***************************************************************************)
(* C2: after add_report_player_stats a player in a bench position has the  *)
(* six enrichment fields at their neutral defaults and no provider was     *)
(* queried for it, whatever the toggles, the season, the values the fields *)
(* held and the answers the providers hold.                                *)
(***************************************************************************)
C2_BenchNeutral ==
    (PlayerCalled /\ player.selected_position \in league.bench_positions)
        => (Neutral(player) /\ result.queried = <<{}>>)

\* an IR player of a league that benches IR, with values left from an
\* earlier enrichment, every toggle on, a season of 2020 and providers that
\* all hold something for it
C2_Witness ==
    /\ PlayerCalled
    /\ player.selected_position = "IR"
    /\ league.bench_positions = {"BN", "IR"}
    /\ ~Neutral(prior)
    /\ config.league_bad_boy_rankings
    /\ config.league_beef_rankings
    /\ config.league_covid_risk_rankings
    /\ season = 2020
    /\ result.answers[1].bad_boy.bad_boy_points > 0
    /\ result.answers[1].beef.weight > 0
    /\ result.answers[1].covid > 0

(***************************************************************************)
(* C7: add_report_team_stats logs the point-discrepancy warning exactly    *)
(* when the team's points, to two places, differ from the recomputed       *)
(* starting lineup sum (the active players' points, to two places) plus    *)
(* home_field_advantage; either way the call goes on, assigns every        *)
(* remaining aggregate and returns the team.                               *)
(***************************************************************************)
C7_Mismatch ==
    Rounded(team.points)
        # Rounded(Total(PointsOf, ActivePlayers)) + team.home_field_advantage

C7_Warned == \E i \in DOMAIN log : log[i] = "points_mismatch"

C7_MismatchWarning ==
    TeamCalled =>
        /\ C7_Warned <=> C7_Mismatch
        /\ result.outcome = "returned"
        /\ {"bench_points", "positions_filled_active", "coaching_efficiency",
            "optimal_points", "luck", "weekly_overall_record", "record"}
              \subseteq team.assigned

\* the scenario of the spec: one active and one bench player, no advantage,
\* points that differ from the active sum; the warning is logged and the
\* team returned
C7_Witness ==
    /\ TeamReturned
    /\ C7_Warned
    /\ Cardinality(ActivePlayers) = 1
    /\ Cardinality(BenchPlayers) = 1
    /\ team.home_field_advantage = 0

\* a team whose points agree with the sum only through the advantage: no
\* warning
C7_WitnessQuiet ==
    /\ TeamReturned
    /\ ~C7_Warned
    /\ team.home_field_advantage > 0
    /\ ActivePlayers # {}

(***************************************************************************)
(* C8: with bad-boy rankings enabled, after add_report_team_stats          *)
(* team.bad_boy_points is the sum of bad_boy_points over the team's active *)
(* players; bench players contribute nothing.                              *)
(***************************************************************************)
C8_BadBoyPoints ==
    (TeamReturned /\ BadBoyEnabled)
        => team.bad_boy_points = Total(BadBoyPointsOf, ActivePlayers)

\* the scenario of the spec: active players with 5 and 12 points
C8_Witness ==
    /\ TeamReturned
    /\ BadBoyEnabled
    /\ Len(team.roster) = 2
    /\ team.roster[1].bad_boy_points = 5
    /\ team.roster[2].bad_boy_points = 12
    /\ team.bad_boy_points = 17

(***************************************************************************)
(* C9, as claimed: with bad-boy rankings enabled team.num_offenders is the *)
(* sum over the active players of the player's own bad_boy_num_offenders   *)
(* for a DEF, and for any other position of 1 if the player's              *)
(* bad_boy_points > 0 and of 0 if not.                                     *)
(***************************************************************************)
C9_ClaimedCount ==
    [i \in DOMAIN team.roster |->
        IF team.roster[i].selected_position = "DEF"
        THEN team.roster[i].bad_boy_num_offenders
        ELSE IF team.roster[i].bad_boy_points > 0 THEN 1 ELSE 0]

C9_AsClaimed ==
    (TeamReturned /\ BadBoyEnabled)
        => team.num_offenders = Total(C9_ClaimedCount, ActivePlayers)

(***************************************************************************)
(* C9, amended: team.num_offenders is the sum over the active players      *)
(* whose bad_boy_points > 0 of the player's own bad_boy_num_offenders for  *)
(* a DEF and of 1 for any other position; an active player with no         *)
(* bad-boy points, a DEF too, counts 0.                                    *)
(***************************************************************************)
C9_Count ==
    [i \in DOMAIN team.roster |->
        IF team.roster[i].bad_boy_points > 0
        THEN IF team.roster[i].selected_position = "DEF"
             THEN team.roster[i].bad_boy_num_offenders ELSE 1
        ELSE 0]

C9_NumOffenders ==
    (TeamReturned /\ BadBoyEnabled)
        => team.num_offenders = Total(C9_Count, ActivePlayers)

\* the scenario of the spec (5 points, and a DEF with 12 points and three
\* offenders: four offenders)
C9_Witness ==
    /\ TeamReturned
    /\ BadBoyEnabled
    /\ Len(team.roster) = 2
    /\ team.roster[1].selected_position = "QB"
    /\ team.roster[1].bad_boy_points = 5
    /\ team.roster[2].selected_position = "DEF"
    /\ team.roster[2].bad_boy_num_offenders = 3
    /\ team.roster[2].bad_boy_points = 12
    /\ team.num_offenders = 4

\* a DEF whose three offenders score no points is not counted
C9_WitnessZeroPoints ==
    /\ TeamReturned
    /\ BadBoyEnabled
    /\ \E i \in ActivePlayers :
          /\ team.roster[i].selected_position = "DEF"
          /\ team.roster[i].bad_boy_points = 0
          /\ team.roster[i].bad_boy_num_offenders = 3
    /\ team.num_offenders = 0

(***************************************************************************)
(* C10: with bad-boy rankings enabled team.worst_offense_score is the      *)
(* maximum bad_boy_points over the active players (0 when none has any)    *)
(* and team.worst_offense the crime of the first active player, in roster  *)
(* order, that has this maximum (None when there is none).                 *)
(***************************************************************************)
C10_Max ==
    CHOOSE m \in {0} \cup {team.roster[i].bad_boy_points : i \in ActivePlayers} :
        \A i \in ActivePlayers : team.roster[i].bad_boy_points <= m

C10_Worst == {i \in ActivePlayers : team.roster[i].bad_boy_points = C10_Max}

C10_First == CHOOSE i \in C10_Worst : \A j \in C10_Worst : i <= j

C10_WorstOffense ==
    (TeamReturned /\ BadBoyEnabled) =>
        /\ team.worst_offense_score = C10_Max
        /\ team.worst_offense =
              IF C10_Max = 0 THEN "None" ELSE team.roster[C10_First].bad_boy_crime

\* two active players tie at 5 points with different crimes: the first is kept
C10_Witness ==
    /\ TeamReturned
    /\ BadBoyEnabled
    /\ Len(team.roster) = 2
    /\ ActivePlayers = {1, 2}
    /\ team.roster[1].bad_boy_points = 5
    /\ team.roster[2].bad_boy_points = 5
    /\ team.roster[1].bad_boy_crime = "Theft"
    /\ team.roster[2].bad_boy_crime = "DUI"
    /\ team.worst_offense = "Theft"
    /\ team.worst_offense_score = 5

(***************************************************************************)
(* C3: league_data_factory called with a platform name that is not in the  *)
(* supported set logs an error and exits: it constructs no adapter, calls  *)
(* no map_data_to_base and returns nothing.                                *)
(***************************************************************************)
C3_UnsupportedExits ==
    (factory.called /\ factory.platform \notin supported_platforms) =>
        /\ factory.did.outcome = "exit"
        /\ factory.did.errors = <<"unsupported_platform">>
        /\ factory.did.constructed = <<>>
        /\ factory.did.mapped = <<>>
        /\ factory.did.returned = "nothing"

\* a name that differs from a supported one by its case only
C3_Witness ==
    /\ factory.called
    /\ factory.platform = "Yahoo"
    /\ factory.did.outcome = "exit"

(***************************************************************************)
(* C4: for every platform name of the supported set league_data_factory    *)
(* constructs exactly the adapter of that name and calls its               *)
(* map_data_to_base; when it returns, it returns that adapter's League,    *)
(* never nothing.                                                          *)
(***************************************************************************)
C4_AdapterOf ==
    [p \in supported_platforms |->
        IF p = "yahoo" THEN "YahooLeagueData"
        ELSE IF p = "fleaflicker" THEN "FleaflickerLeagueData"
        ELSE IF p = "sleeper" THEN "SleeperLeagueData"
        ELSE "EspnLeagueData"]

C6_SavedThenReplayed ==
    /\ fetch_prev.called
    /\ ~fetch_prev.dev_bool
    /\ fetch_prev.save_bool
    /\ fetch_prev.outcome = "returned"
    /\ fetch.called
    /\ fetch.dev_bool
    /\ fetch.op \in CachedOps
    /\ fetch.op = fetch_prev.op
    /\ fetch.week = fetch_prev.week

(***************************************************************************)
(* C6: for each cached fetch operation, a live call with the save flag set *)
(* followed by an offline call with the same league directory and the same *)
(* arguments returns the data the live call returned.                      *)
(***************************************************************************)
C6_RoundTrip ==
    C6_SavedThenReplayed => (fetch.outcome = "returned" /\ fetch.data = fetch_prev.data)

\* the round trip of the operations of YqlQuery, which cache JSON
C6_JsonRoundTrip ==
    (C6_SavedThenReplayed /\ fetch.op # "get_player_game_time_statuses")
        => (fetch.outcome = "returned" /\ fetch.data = fetch_prev.data)

\* a saved and replayed answer of a live query that needs the league key
C6_JsonWitness ==
    /\ C6_SavedThenReplayed
    /\ fetch.op = "get_teams_data"
    /\ fetch.outcome = "returned"
    /\ Len(fetch.data) = 2

(***************************************************************************)
(* C11: in a season earlier than 2020 with the covid-risk toggle on, the   *)
(* enrichment of a team never queries the covid-risk provider, leaves the  *)
(* covid_risk of every player at 0 and does not assign                     *)
(* team.total_covid_risk.                                                  *)
(***************************************************************************)
C11_CovidSeasonGate ==
    (TeamCalled /\ season < 2020 /\ config.league_covid_risk_rankings) =>
        /\ \A i \in DOMAIN result.queried : "covid_risk" \notin result.queried[i]
        /\ \A i \in DOMAIN team.roster : team.roster[i].covid_risk = 0
        /\ "total_covid_risk" \notin team.assigned

\* season 2019, the toggle on, a roster of two active players enriched
C11_Witness ==
    /\ TeamCalled
    /\ season = 2019
    /\ config.league_covid_risk_rankings
    /\ Len(team.roster) = 2
    /\ ActivePlayers = {1, 2}

\* from 2020 on the provider is queried and the total assigned
C11_WitnessGateOpen ==
    /\ TeamCalled
    /\ season = 2020
    /\ config.league_covid_risk_rankings
    /\ ActivePlayers = {1, 2}
    /\ team.total_covid_risk = 6
    /\ "total_covid_risk" \in team.assigned

(***************************************************************************)
(* Vocabulary of the week validation.                                      *)
(***************************************************************************)
WeekCalled == week_call.called

\* the season of the call is the year before the module's current year and
\* the module's current month is before September
PriorSeasonOffSeason ==
    /\ week_call.inputs.season + 1 = current_year
    /\ current_month < 9

\* the season of the call is neither the module's current year nor within
\* that window
HistoricalSeason ==
    /\ week_call.inputs.season # current_year
    /\ ~PriorSeasonOffSeason

\* the call was given a week number
ExplicitWeek == week_call.inputs.week.t = "int"

WeekRaised == week_call.did.outcome \notin {"returned", "none"}

(***************************************************************************)
(* C12: when the season is not the current season the call skips the       *)
(* validation: for every requested week, a number of any value or          *)
(* "default", and every retrieved current week it issues no prompt, raises *)
(* no error and returns an explicit week number unchanged.                 *)
(***************************************************************************)
C12_SkipsValidation ==
    (WeekCalled /\ HistoricalSeason) =>
        /\ ~week_call.did.prompted
        /\ week_call.did.outcome = "returned"
        /\ ExplicitWeek => week_call.did.value = week_call.inputs.week.n

\* what the code does in such a season: no prompt, and a week number other
\* than 0 is returned unchanged, whatever the retrieved current week
C12_NumberAccepted ==
    (WeekCalled /\ HistoricalSeason) =>
        /\ ~week_call.did.prompted
        /\ (ExplicitWeek /\ week_call.inputs.week.n # 0) =>
               /\ week_call.did.outcome = "returned"
               /\ week_call.did.value = week_call.inputs.week.n

\* "default" in such a season: int("default") raises
C12_DefaultRaises ==
    /\ WeekCalled
    /\ HistoricalSeason
    /\ week_call.inputs.week = PyWord("default")
    /\ week_call.did.outcome = "ValueError"
    /\ week_call.did.message = "int_conversion"

C13_WitnessPrompt ==
    /\ WeekCalled
    /\ PriorSeasonOffSeason
    /\ week_call.inputs.week = PyInt(3)
    /\ week_call.inputs.current_week = PyInt(2)
    /\ week_call.did.prompted

\* the call is for a season the code validates
ValidatedCall == WeekCalled /\ ~HistoricalSeason

\* the requested week is "default": given, or configured and no week given
RequestedDefault ==
    \/ week_call.inputs.week = PyWord("default")
    \/ /\ week_call.inputs.week = PyNone
       /\ week_call.inputs.cfg_week = PyWord("default")

WeekReturned(n) == week_call.did.outcome = "returned" /\ week_call.did.value = n

(***************************************************************************)
(* C14: in a validated season with the requested week "default", if        *)
(* current_week - 1 > 0 the call returns current_week - 1 without a        *)
(* prompt; otherwise it prompts, the answer "y" returns the current week   *)
(* and every other answer makes the call raise.                            *)
(***************************************************************************)
C14_DefaultWeek ==
    (ValidatedCall /\ RequestedDefault /\ week_call.inputs.current_week.t = "int") =>
        LET cw == week_call.inputs.current_week.n
        IN  IF cw - 1 > 0
            THEN WeekReturned(cw - 1) /\ ~week_call.did.prompted
            ELSE /\ week_call.did.prompted
                 /\ week_call.inputs.answer = "y" => WeekReturned(cw)
                 /\ week_call.inputs.answer # "y" => WeekRaised

\* "default" with current week 1 and the answer "y": week 1
C14_Witness ==
    /\ ValidatedCall
    /\ RequestedDefault
    /\ week_call.inputs.current_week = PyInt(1)
    /\ week_call.inputs.answer = "y"
    /\ week_call.did.prompted
    /\ WeekReturned(1)

\* "default" with current week 4: week 3, no prompt
C14_WitnessResolved ==
    /\ ValidatedCall
    /\ RequestedDefault
    /\ week_call.inputs.current_week = PyInt(4)
    /\ WeekReturned(3)

(***************************************************************************)
(* C15: in a validated season an explicit requested week that is not an    *)
(* integer in 1..NFL_SEASON_LENGTH makes the call raise, for every         *)
(* retrieved current week, without a prompt and without returning a week.  *)
(***************************************************************************)
C15_OutOfRangeRaises ==
    (/\ ValidatedCall
     /\ week_call.inputs.week # PyNone
     /\ week_call.inputs.week # PyWord("default")
     /\ ~(ExplicitWeek /\ week_call.inputs.week.n \in 1..NFL_SEASON_LENGTH)) =>
        WeekRaised /\ ~week_call.did.prompted

\* what the code does: every such week other than the number 0 raises
C15_NonZeroRaises ==
    (/\ ValidatedCall
     /\ week_call.inputs.week # PyNone
     /\ week_call.inputs.week # PyInt(0)
     /\ week_call.inputs.week # PyWord("default")
     /\ ~(ExplicitWeek /\ week_call.inputs.week.n \in 1..NFL_SEASON_LENGTH)) =>
        WeekRaised /\ ~week_call.did.prompted

\* week 0 with week 2 configured and current week 4: week 2 is returned
C15_ZeroTakesConfigured ==
    /\ ValidatedCall
    /\ week_call.inputs.week = PyInt(0)
    /\ week_call.inputs.cfg_week = PyNumStr(2)
    /\ week_call.inputs.current_week = PyInt(4)
    /\ WeekReturned(2)

\* an explicit week in range against a retrieved current week
InRangeCall ==
    /\ ValidatedCall
    /\ ExplicitWeek
    /\ week_call.inputs.week.n \in 1..NFL_SEASON_LENGTH
    /\ week_call.inputs.current_week.t = "int"

(***************************************************************************)
(* C16: in a validated season an explicit week w in range is returned      *)
(* without a prompt iff w < current_week; when w >= current_week the call  *)
(* prompts, the answer "y" returns w and declining raises an error whose   *)
(* message says that an incomplete week should not be reported on.         *)
(***************************************************************************)
C16_IncompleteWeek ==
    InRangeCall =>
        LET w == week_call.inputs.week.n
            cw == week_call.inputs.current_week.n
        IN  /\ week_call.did.prompted <=> w >= cw
            /\ ~week_call.did.prompted => WeekReturned(w)
            /\ (week_call.did.prompted /\ week_call.inputs.answer = "y") => WeekReturned(w)
            /\ (week_call.did.prompted /\ week_call.inputs.answer = "n") =>
                   /\ WeekRaised
                   /\ week_call.did.message = "incomplete_week"

\* what the code does: the prompt, the returns and an error on declining
C16_PromptAndReturn ==
    InRangeCall =>
        LET w == week_call.inputs.week.n
            cw == week_call.inputs.current_week.n
        IN  /\ week_call.did.prompted <=> w >= cw
            /\ ~week_call.did.prompted => WeekReturned(w)
            /\ (week_call.did.prompted /\ week_call.inputs.answer = "y") => WeekReturned(w)
            /\ (week_call.did.prompted /\ week_call.inputs.answer # "y") => WeekRaised

\* week 3 against current week 2 declined: the message of the range check
C16_DeclinedMessage ==
    /\ InRangeCall
    /\ week_call.inputs.week = PyInt(3)
    /\ week_call.inputs.current_week = PyInt(2)
    /\ week_call.inputs.answer = "n"
    /\ week_call.did.outcome = "ValueError"
    /\ week_call.did.message = "invalid_week_value"

(***************************************************************************)
(* Vocabulary of the fetch operations.                                     *)
(***************************************************************************)
Fetching(op) == fetch.called /\ fetch.op = op

NetworkIo == {"yql_query", "requests.get"}

\* the last operation ran offline and its cache file did not exist
OfflineMissingFile ==
    /\ fetch.called
    /\ fetch.op \in CachedOps
    /\ fetch.dev_bool
    /\ ~fetch.had_file

(***************************************************************************)
(* C17: offline, when the cache file an operation needs does not exist,    *)
(* the operation fails fatally, by aborting the process or by an error     *)
(* that propagates, and returns no payload; for                            *)
(* get_player_game_time_statuses and every fetch operation of YqlQuery.    *)
(***************************************************************************)
C17_MissingFileFatal ==
    OfflineMissingFile =>
        /\ fetch.outcome \in {"exit", "FileNotFoundError"}
        /\ fetch.data = <<>>
        /\ ~files[CacheFile(fetch.op, fetch.week)].exists

\* get_teams_data offline with no teams_data.json: FileNotFoundError
C17_Witness ==
    /\ OfflineMissingFile
    /\ fetch.op = "get_teams_data"
    /\ fetch.outcome = "FileNotFoundError"

\* get_player_game_time_statuses offline with no file: the process exits
C17_WitnessExit ==
    /\ OfflineMissingFile
    /\ fetch.op = "get_player_game_time_statuses"
    /\ fetch.save_bool
    /\ fetch.outcome = "exit"

(***************************************************************************)
(* C19: offline no network request is issued: get_current_nfl_week         *)
(* returns the configured current_week without a request,                  *)
(* get_player_game_time_statuses reads only the cache file, and every      *)
(* fetch operation of YqlQuery reads only its cache file and never calls   *)
(* yql_query.                                                              *)
(***************************************************************************)
C19_OfflineNoNetwork ==
    (fetch.called /\ fetch.dev_bool) =>
        /\ fetch.io \cap NetworkIo = {}
        /\ fetch.op \in CachedOps => "read" \in fetch.io
        /\ fetch.op = "get_current_nfl_week" =>
               /\ fetch.outcome = "returned"
               /\ fetch.data = <<PyInt(fetch.answer.current_week)>>
               /\ fetch.io = {}

\* get_league_key offline: the key is built from the cached game data
C19_Witness ==
    /\ Fetching("get_league_key")
    /\ fetch.dev_bool
    /\ fetch.outcome = "returned"
    /\ fetch.io = {"read"}

\* get_current_nfl_week offline: the configured week
C19_WitnessCurrentWeek ==
    /\ Fetching("get_current_nfl_week")
    /\ fetch.dev_bool
    /\ fetch.data = <<PyInt(3)>>

\* online the operations do go to the network
C19_WitnessOnline ==
    /\ Fetching("get_teams_data")
    /\ ~fetch.dev_bool
    /\ fetch.io = {"yql_query"}

(***************************************************************************)
(* C20: online, get_current_nfl_week always returns a week number: the     *)
(* week of the live lookup when the lookup succeeds and carries a week,    *)
(* and otherwise, on a failed request, an unparsable response or a         *)
(* response without a week, the configured current_week; it never aborts   *)
(* the run and never returns a missing week.                               *)
(***************************************************************************)
C20_CurrentWeekConcrete ==
    (Fetching("get_current_nfl_week") /\ ~fetch.dev_bool) =>
        /\ fetch.outcome = "returned"
        /\ fetch.data = <<IF fetch.answer.kind = "week"
                           THEN PyInt(fetch.answer.week)
                           ELSE PyInt(fetch.answer.current_week)>>

\* what the code does on a lookup with a week and on an unparsable response
C20_WeekOrFallback ==
    (Fetching("get_current_nfl_week") /\ ~fetch.dev_bool
        /\ fetch.answer.kind \in {"week", "not_json"}) =>
        /\ fetch.outcome = "returned"
        /\ fetch.data = <<IF fetch.answer.kind = "week"
                           THEN PyInt(fetch.answer.week)
                           ELSE PyInt(fetch.answer.current_week)>>

\* a response without a week: None is returned
C20_ReturnsNone ==
    /\ Fetching("get_current_nfl_week")
    /\ ~fetch.dev_bool
    /\ fetch.answer.kind = "no_week"
    /\ fetch.outcome = "returned"
    /\ fetch.data = <<PyNone>>

\* a failed request: the error propagates
C20_RequestErrorPropagates ==
    /\ Fetching("get_current_nfl_week")
    /\ ~fetch.dev_bool
    /\ fetch.answer.kind = "connection_error"
    /\ fetch.outcome = "ConnectionError"

(***************************************************************************)
(* C18: add_report_team_stats never fails on fetched data: for every team, *)
(* roster and provider answer and every content of the luck and records    *)
(* tables, a table without an entry for the team included, the call        *)
(* returns the team, a logged warning being its only other effect.         *)
(***************************************************************************)
C18_NeverFatal ==
    TeamCalled => result.outcome = "returned"

\* what the code does: it returns whenever the luck table knows the team,
\* and a team the records table does not know gets no record
C18_ReturnsWithLuckEntry ==
    (TeamCalled /\ team.team_id \in DOMAIN metrics.luck) =>
        /\ result.outcome = "returned"
        /\ team.team_id \notin DOMAIN metrics.records => team.record = "None"

\* a luck table without the team: the call raises after the aggregates
C18_MissingLuckRaises ==
    /\ TeamCalled
    /\ team.team_id \notin DOMAIN metrics.luck
    /\ result.outcome = "AttributeError"
    /\ "coaching_efficiency" \in team.assigned
    /\ "luck" \notin team.assigned

\* the step of a behaviour that is the call of add_report_team_stats
TeamCallStep == result.call = "none" /\ result'.call = "add_report_team_stats"

(***************************************************************************)
(* C21: add_report_team_stats leaves the fetched data unchanged: after the *)
(* call team.points and team.home_field_advantage are what they were       *)
(* before it, also when the points did not match, the roster holds the     *)
(* same players in the same order, and the points and the                  *)
(* selected_position of every player are unchanged.                        *)
(***************************************************************************)
C21_FetchedDataKept ==
    [][TeamCallStep =>
          /\ team'.points = team.points
          /\ team'.home_field_advantage = team.home_field_advantage
          /\ team'.team_id = team.team_id
          /\ Len(team'.roster) = Len(team.roster)
          /\ \A i \in DOMAIN team.roster :
                /\ team'.roster[i].points = team.roster[i].points
                /\ team'.roster[i].selected_position = team.roster[i].selected_position]_vars

\* a call that logged the mismatch, on a roster of two different players
C21_Witness ==
    /\ TeamReturned
    /\ log = <<"points_mismatch">>
    /\ Len(team.roster) = 2
    /\ team.roster[1].selected_position # team.roster[2].selected_position
    /\ team.roster[1].points # team.roster[2].points

(***************************************************************************)
(* C22: whenever the call validates and returns a week, the week is an     *)
(* integer in 1..NFL_SEASON_LENGTH, for every requested week, every        *)
(* current week the platform reports (0, 1 and values above                *)
(* NFL_SEASON_LENGTH + 1 included) and every answer to the prompt.         *)
(***************************************************************************)
C22_ReturnedInRange ==
    (ValidatedCall /\ week_call.did.outcome = "returned") =>
        week_call.did.value \in 1..NFL_SEASON_LENGTH

\* the week the call works on is "default": given, or configured while the
\* week given is None or 0
ResolvesDefault ==
    \/ RequestedDefault
    \/ /\ week_call.inputs.week = PyInt(0)
       /\ week_call.inputs.cfg_week = PyWord("default")

\* what the code does: a week that is not resolved from "default" is
\* returned only from within the range
C22_ExplicitInRange ==
    (ValidatedCall /\ ~ResolvesDefault /\ week_call.did.outcome = "returned") =>
        week_call.did.value \in 1..NFL_SEASON_LENGTH

\* "default" with current week 0 and the answer "y": week 0 is returned
C22_ReturnsZero ==
    /\ ValidatedCall
    /\ RequestedDefault
    /\ week_call.inputs.current_week = PyInt(0)
    /\ week_call.inputs.answer = "y"
    /\ WeekReturned(0)

\* "default" with current week 20: week 19 is returned without a prompt
C22_ReturnsNineteen ==
    /\ ValidatedCall
    /\ RequestedDefault
    /\ week_call.inputs.current_week = PyInt(20)
    /\ ~week_call.did.prompted
    /\ WeekReturned(19)

(***************************************************************************)
(* Setup: what get_valid_config and create_config_from_template return.    *)
(***************************************************************************)
SetupCalled(op) == setup.called /\ setup.op = op

SetupReturned(op) == SetupCalled(op) /\ setup.outcome = "returned"

\* C23: a call of get_valid_config that returns, returns a configuration;
\* it never returns without one
C23_ReturnsConfiguration ==
    SetupReturned("get_valid_config") => setup.value = "config"

\* what the code does: the call returns the configuration when no create
\* prompt was answered with anything but "y"
C23_FirstAnswerReturns ==
    ( /\ SetupReturned("get_valid_config")
      /\ \/ setup.found.exists
         \/ Head(setup.given.create) = PyWord("y") ) =>
        setup.value = "config"

\* config.ini absent, the create prompt answered "maybe" and then "y": the
\* file is created by the inner call and the outermost call returns None
C23_ReturnsNone ==
    /\ SetupReturned("get_valid_config")
    /\ ~setup.found.exists
    /\ setup.given.create = <<PyWord("maybe"), PyWord("y")>>
    /\ config_file.exists
    /\ setup.value = "None"

\* the recursive call ends the process when the second answer is "n"
C23_InnerAborts ==
    /\ SetupCalled("get_valid_config")
    /\ setup.given.create = <<PyWord("maybe"), PyWord("n")>>
    /\ setup.outcome = "exit"

\* C24: the platform in the configuration create_config_from_template
\* returns, and in config.ini as it last wrote it, is a supported platform
C24_StoredPlatformSupported ==
    SetupReturned("create_config_from_template") =>
        /\ setup.config.platform.s \in supported_platforms
        /\ config_file.settings.platform.s \in supported_platforms

\* what the code does: the platform stored is the first one answered, so it
\* is supported when the first answer is
C24_FirstAnswerStored ==
    SetupReturned("create_config_from_template") =>
        /\ setup.config.platform = Head(setup.given.platform)
        /\ config_file.settings.platform = Head(setup.given.platform)

\* "cbs" is rejected, "yahoo" accepted by the inner call; the outer call
\* then sets "cbs" and writes config.ini with it
C24_RejectedStored ==
    /\ SetupReturned("create_config_from_template")
    /\ setup.given.platform = <<PyWord("cbs"), PyWord("yahoo")>>
    /\ stdin.platform = <<>>
    /\ setup.config.platform = PyWord("cbs")
    /\ config_file.settings.platform = PyWord("cbs")

====
